---- MODULE Spec2Model ----
(***************************************************************************)
(* A model of the fleet demand assistant's tool layer:                     *)
(*   - the two remote (Lambda) handlers, weather_lambda and flight_lambda, *)
(*   - the in-process fleet tools of fleet_tools.py over the DynamoDB      *)
(*     fleet table, and the holiday and local-event tools.                 *)
(*                                                                         *)
(* Python text is a sequence of atoms, each a piece of the text.  In a     *)
(* tool identifier the atom "_" is one underscore and no other atom holds  *)
(* one, so the separator "___" is three atoms.  Python values are tagged   *)
(* records [t, v]; a dict is an insertion-ordered sequence of <<key,       *)
(* value>> pairs.  JSON text is text whose atoms are JSON's tokens.        *)
(***************************************************************************)
EXTENDS Integers, Sequences, FiniteSets, TLC

VARIABLES
    table,     \* the items of the DynamoDB table hertz-fleet-inventory
    env,       \* configuration of the process: the API keys of os.environ
    request,   \* the last invocation: which operation, with which arguments
    response,  \* what that invocation returned (or the exception it raised)
    calls,     \* the tool calls and outbound calls made by that invocation
    pc,        \* where a deployment script stands
    cloud,     \* the status the service holds for the resource being deployed
    deploy_status,  \* the script's variable status: what its last poll returned
    polls,     \* the status polls the script has made
    elapsed_time,  \* the time the script has slept between polls, in seconds
    ssm,       \* the names of the parameters the script has stored
    outcome    \* what the script reported, and its exit code

\* the variables of the deployment scripts
script == <<pc, cloud, deploy_status, polls, elapsed_time, ssm, outcome>>

vars == <<table, env, request, response, calls, pc, cloud, deploy_status, polls, elapsed_time,
          ssm,
          outcome>>

----------------------------------------------------------------------------
(* Python values *)

PyNone == [t |-> "none", v |-> 0]
PyStr(s) == [t |-> "str", v |-> s]
PyInt(n) == [t |-> "int", v |-> n]
PyBool(b) == [t |-> "bool", v |-> b]
PyList(items) == [t |-> "list", v |-> items]
PyDict(pairs) == [t |-> "dict", v |-> pairs]
\* decimal.Decimal with two places, held as integer cents
PyDecimal(cents) == [t |-> "decimal", v |-> cents]
\* a float, held as integer hundredths
PyFloat(hundredths) == [t |-> "float", v |-> hundredths]
\* a value json cannot encode (a set, bytes, an arbitrary object)
PyObject == [t |-> "object", v |-> 0]
\* no value at all: a missing attribute or dict key
Absent == [t |-> "absent", v |-> 0]

\* a one-atom text
S(a) == <<a>>

\* bool(x)
Truthy(x) ==
    CASE x.t = "none" -> FALSE
      [] x.t = "str" -> Len(x.v) > 0
      [] x.t = "int" -> x.v # 0
      [] x.t = "bool" -> x.v
      [] x.t = "list" -> Len(x.v) > 0
      [] x.t = "dict" -> Len(x.v) > 0
      [] x.t = "decimal" -> x.v # 0
      [] x.t = "float" -> x.v # 0
      [] OTHER -> TRUE

\* key in d
HasKey(d, k) == \E i \in 1..Len(d.v) : d.v[i][1] = k

\* d.get(k, default)
DictGet(d, k, default) ==
    IF HasKey(d, k)
    THEN d.v[CHOOSE i \in 1..Len(d.v) : d.v[i][1] = k][2]
    ELSE default

\* the keys of d, as a set
Keys(d) == {d.v[i][1] : i \in 1..Len(d.v)}

\* what a Python call does: return a value or raise an exception
Return(x) == [raised |-> FALSE, exc |-> "", msg |-> <<>>, value |-> x]
Raise(e, m) == [raised |-> TRUE, exc |-> e, msg |-> m, value |-> PyNone]

----------------------------------------------------------------------------
(* Text *)

\* s.find(sep, from): the first index >= from where sep occurs in s, or 0
Find(s, sep, from) ==
    LET hits == {j \in from..(Len(s) - Len(sep) + 1) :
                    SubSeq(s, j, j + Len(sep) - 1) = sep}
    IN IF hits = {} THEN 0 ELSE CHOOSE j \in hits : \A k \in hits : j <= k

\* sep in s
Contains(s, sep) == Find(s, sep, 1) # 0

\* s.split(sep): the pieces between the non-overlapping occurrences of sep,
\* found left to right
RECURSIVE Split(_, _)
Split(s, sep) ==
    LET j == Find(s, sep, 1)
    IN IF j = 0
       THEN <<s>>
       ELSE <<SubSeq(s, 1, j - 1)>> \o Split(SubSeq(s, j + Len(sep), Len(s)), sep)

\* sep.join(parts)
RECURSIVE Join(_, _)
Join(parts, sep) ==
    IF parts = <<>> THEN <<>>
    ELSE IF Len(parts) = 1 THEN parts[1]
    ELSE parts[1] \o sep \o Join(Tail(parts), sep)

\* Text that the program case-converts or searches for substrings is given
\* letter by letter.
LowerLetters == <<"a", "b", "c", "d", "e", "f", "g", "h", "i", "j", "k", "l", "m",
                  "n", "o", "p", "q", "r", "s", "t", "u", "v", "w", "x", "y", "z">>
UpperLetters == <<"A", "B", "C", "D", "E", "F", "G", "H", "I", "J", "K", "L", "M",
                  "N", "O", "P", "Q", "R", "S", "T", "U", "V", "W", "X", "Y", "Z">>
IsLower(c) == \E i \in 1..26 : LowerLetters[i] = c
IsUpper(c) == \E i \in 1..26 : UpperLetters[i] = c
IsCased(c) == IsLower(c) \/ IsUpper(c)
ToUpper(c) == IF IsLower(c) THEN UpperLetters[CHOOSE i \in 1..26 : LowerLetters[i] = c] ELSE c
ToLower(c) == IF IsUpper(c) THEN LowerLetters[CHOOSE i \in 1..26 : UpperLetters[i] = c] ELSE c

\* s.upper(), s.lower()
UpperText(s) == [i \in 1..Len(s) |-> ToUpper(s[i])]
LowerText(s) == [i \in 1..Len(s) |-> ToLower(s[i])]

\* s.title(): a cased letter is upper case after an uncased character (or at
\* the start) and lower case after a cased one
TitleText(s) ==
    [i \in 1..Len(s) |->
        IF i > 1 /\ IsCased(s[i - 1]) THEN ToLower(s[i]) ELSE ToUpper(s[i])]

Digits == <<"0", "1", "2", "3", "4", "5", "6", "7", "8", "9">>
IsDigit(a) == \E d \in 1..10 : Digits[d] = a
DigitVal(a) == (CHOOSE d \in 1..10 : Digits[d] = a) - 1

\* str(n) of an int
RECURSIVE IntText(_)
IntText(n) ==
    IF n < 0 THEN <<"-">> \o IntText(-n)
    ELSE IF n < 10 THEN <<Digits[n + 1]>>
    ELSE IntText(n \div 10) \o <<Digits[(n % 10) + 1]>>

\* whether int(s) accepts the text s: an optional sign, then digits, single
\* underscores allowed between digits
IsIntText(s) ==
    LET body == IF s # <<>> /\ s[1] = "-" THEN Tail(s) ELSE s
    IN /\ body # <<>>
       /\ IsDigit(body[1])
       /\ IsDigit(body[Len(body)])
       /\ \A i \in 1..Len(body) : IsDigit(body[i]) \/ body[i] = "_"
       /\ \A i \in 1..(Len(body) - 1) : ~(body[i] = "_" /\ body[i + 1] = "_")

RECURSIVE DigitsValue(_, _)
DigitsValue(s, acc) ==
    IF s = <<>> THEN acc
    ELSE IF s[1] = "_" THEN DigitsValue(Tail(s), acc)
    ELSE DigitsValue(Tail(s), 10 * acc + DigitVal(s[1]))

\* the value of int(s) for an accepted text
IntValue(s) ==
    IF s[1] = "-" THEN 0 - DigitsValue(Tail(s), 0) ELSE DigitsValue(s, 0)

\* int(x)
int(x) ==
    CASE x.t = "int" -> Return(x)
      [] x.t = "bool" -> Return(PyInt(IF x.v THEN 1 ELSE 0))
      [] x.t = "float" -> Return(PyInt(x.v \div 100))
      [] x.t = "decimal" -> Return(PyInt(x.v \div 100))
      [] x.t = "str" ->
            IF IsIntText(x.v)
            THEN Return(PyInt(IntValue(x.v)))
            ELSE Raise("ValueError",
                       S("invalid literal for int() with base 10: '") \o x.v \o S("'"))
      [] OTHER ->
            Raise("TypeError",
                  S("int() argument must be a string, a bytes-like object or a real number"))

\* str(x) as an f-string formats it, for the values formatted in this program
str(x) ==
    CASE x.t = "str" -> x.v
      [] x.t = "int" -> IntText(x.v)
      [] x.t = "none" -> S("None")
      [] x.t = "bool" -> IF x.v THEN S("True") ELSE S("False")
      [] OTHER -> S("<value>")

----------------------------------------------------------------------------
(* JSON: json.dumps and json.loads.  Insignificant white space is left out. *)

\* whether json.dumps can encode x; a Decimal only through
\* default=decimal_default
RECURSIVE Serializable(_, _)
Serializable(x, useDefault) ==
    CASE x.t \in {"none", "str", "int", "bool", "float"} -> TRUE
      [] x.t = "decimal" -> useDefault
      [] x.t = "list" -> \A i \in 1..Len(x.v) : Serializable(x.v[i], useDefault)
      [] x.t = "dict" -> \A i \in 1..Len(x.v) : Serializable(x.v[i][2], useDefault)
      [] OTHER -> FALSE

\* a float, and a Decimal that decimal_default turned into a float
FloatText(h) ==
    IntText(h \div 100) \o <<".", Digits[((h % 100) \div 10) + 1], Digits[(h % 10) + 1]>>

RECURSIVE Encode(_)
RECURSIVE EncodeItems(_)
RECURSIVE EncodePairs(_)
Encode(x) ==
    CASE x.t = "none" -> <<"null">>
      [] x.t = "bool" -> IF x.v THEN <<"true">> ELSE <<"false">>
      [] x.t = "int" -> IntText(x.v)
      [] x.t \in {"float", "decimal"} -> FloatText(x.v)
      [] x.t = "str" -> <<"\"">> \o x.v \o <<"\"">>
      [] x.t = "list" -> <<"[">> \o EncodeItems(x.v) \o <<"]">>
      [] x.t = "dict" -> <<"{">> \o EncodePairs(x.v) \o <<"}">>

EncodeItems(items) ==
    IF items = <<>> THEN <<>>
    ELSE IF Len(items) = 1 THEN Encode(items[1])
    ELSE Encode(items[1]) \o <<",">> \o EncodeItems(Tail(items))

EncodePairs(pairs) ==
    IF pairs = <<>> THEN <<>>
    ELSE LET one == <<"\"">> \o pairs[1][1] \o <<"\"", ":">> \o Encode(pairs[1][2])
         IN IF Len(pairs) = 1 THEN one
            ELSE one \o <<",">> \o EncodePairs(Tail(pairs))

\* json.dumps(x) and json.dumps(x, default=decimal_default)
json_dumps(x, useDefault) ==
    IF Serializable(x, useDefault)
    THEN Return(PyStr(Encode(x)))
    ELSE Raise("TypeError", S("Object is not JSON serializable"))

\* the end of the run of number atoms starting at i
RECURSIVE NumberEnd(_, _)
NumberEnd(text, i) ==
    IF i <= Len(text) /\ (IsDigit(text[i]) \/ text[i] \in {"-", "."})
    THEN NumberEnd(text, i + 1)
    ELSE i

ParseNumber(num) ==
    IF \E i \in 1..Len(num) : num[i] = "."
    THEN LET dot == CHOOSE i \in 1..Len(num) : num[i] = "."
         IN PyFloat(100 * IntValue(SubSeq(num, 1, dot - 1))
                    + 10 * DigitVal(num[dot + 1]) + DigitVal(num[dot + 2]))
    ELSE PyInt(IntValue(num))

RECURSIVE ParseValue(_, _)
RECURSIVE ParseList(_, _, _)
RECURSIVE ParseDict(_, _, _)
ParseValue(text, i) ==
    LET a == text[i]
    IN CASE a = "null" -> [val |-> PyNone, next |-> i + 1]
         [] a = "true" -> [val |-> PyBool(TRUE), next |-> i + 1]
         [] a = "false" -> [val |-> PyBool(FALSE), next |-> i + 1]
         [] a = "\"" ->
               LET close == Find(text, <<"\"">>, i + 1)
               IN [val |-> PyStr(SubSeq(text, i + 1, close - 1)), next |-> close + 1]
         [] a = "[" -> ParseList(text, i + 1, <<>>)
         [] a = "{" -> ParseDict(text, i + 1, <<>>)
         [] OTHER ->
               LET end == NumberEnd(text, i)
               IN [val |-> ParseNumber(SubSeq(text, i, end - 1)), next |-> end]

ParseList(text, i, acc) ==
    IF text[i] = "]" THEN [val |-> PyList(acc), next |-> i + 1]
    ELSE LET r == ParseValue(text, IF text[i] = "," THEN i + 1 ELSE i)
         IN ParseList(text, r.next, Append(acc, r.val))

ParseDict(text, i, acc) ==
    IF text[i] = "}" THEN [val |-> PyDict(acc), next |-> i + 1]
    ELSE LET k == ParseValue(text, IF text[i] = "," THEN i + 1 ELSE i)
             r == ParseValue(text, k.next + 1)
         IN ParseDict(text, r.next, Append(acc, <<k.val.v, r.val>>))

\* json.loads(s) of a text json.dumps produced
json_loads(s) == ParseValue(s.v, 1).val


----------------------------------------------------------------------------
(* What an invocation leaves behind *)

\* one entry of calls: a tool function entered, an HTTP request sent, a store
\* operation issued
Call(kind, target, arg) == [kind |-> kind, target |-> target, arg |-> arg]

\* what a function that may call out hands back: how it ended, and its calls
Done(ret, made) == [ret |-> ret, calls |-> made]

\* the number of entries of a call log with the given kind and target
CountCalls(log, kind, target) ==
    Cardinality({i \in 1..Len(log) : log[i].kind = kind /\ log[i].target = target})

\* the answer of an upstream HTTP endpoint to one request
UrlError == [kind |-> "URLError", data |-> PyNone]     \* network error, non-2xx
TimedOut == [kind |-> "timeout", data |-> PyNone]      \* socket timeout mid-read
Answered(data) == [kind |-> "ok", data |-> data]       \* 2xx with a JSON body

----------------------------------------------------------------------------
(* weather_lambda.py *)

Sep == <<"_", "_", "_">>
get_weather_forecast_name == <<"get", "_", "weather", "_", "forecast">>
get_flight_traffic_name == <<"get", "_", "flight", "_", "traffic">>

\* `"___" in x` for a value x that is not a str
InNonStr(x) ==
    CASE x.t = "list" -> Return(PyBool(\E i \in 1..Len(x.v) : x.v[i] = PyStr(Sep)))
      [] x.t = "dict" -> Return(PyBool(HasKey(x, Sep)))
      [] OTHER -> Raise("TypeError", S("argument of type is not iterable"))

weather_get_tool_name(context) ==
    LET cc == context.client_context
    IN IF cc.t # "obj" \/ cc.v.custom.t # "dict"
       THEN Return(PyStr(<<>>))             \* AttributeError, caught
       ELSE LET extended_tool_name ==
                    DictGet(cc.v.custom, S("bedrockAgentCoreToolName"), PyStr(<<>>))
            IN IF extended_tool_name.t = "str"
               THEN IF Contains(extended_tool_name.v, Sep)
                    THEN Return(PyStr(Split(extended_tool_name.v, Sep)[2]))
                    ELSE Return(extended_tool_name)
               ELSE LET found == InNonStr(extended_tool_name)
                    IN IF found.raised THEN found     \* TypeError, not caught here
                       ELSE IF found.value.v
                       THEN Return(PyStr(<<>>))       \* no .split: AttributeError
                       ELSE Return(extended_tool_name)

\* variant: the arguments looked up in a nested "parameters" field
weather_get_named_parameter_nested(event, name) ==
    IF event.t = "dict"
    THEN Return(DictGet(DictGet(event, S("parameters"), PyDict(<<>>)), name, PyNone))
    ELSE Raise("AttributeError", S("object has no attribute 'get'"))

\* event.get(name)
weather_get_named_parameter(event, name) ==
    IF event.t = "dict"
    THEN Return(DictGet(event, name, PyNone))
    ELSE Raise("AttributeError", S("object has no attribute 'get'"))

\* variant: the first argument is taken as it is
min_uncapped(a, b) == a

min(a, b) == IF a <= b THEN a ELSE b

ForecastDay(daily, i) ==
    PyDict(<< <<S("date"), DictGet(daily, S("time"), PyNone).v[i]>>,
              <<S("temp_max_f"), DictGet(daily, S("temperature_2m_max"), PyNone).v[i]>>,
              <<S("temp_min_f"), DictGet(daily, S("temperature_2m_min"), PyNone).v[i]>>,
              <<S("precipitation_mm"), DictGet(daily, S("precipitation_sum"), PyNone).v[i]>>,
              <<S("precipitation_probability"),
                DictGet(daily, S("precipitation_probability_max"), PyNone).v[i]>>,
              <<S("weather_code"), DictGet(daily, S("weathercode"), PyNone).v[i]>> >>)

\* variant: the error result carries no forecast list
WeatherError_bare(prefix, detail) ==
    Return(PyDict(<< <<S("error"), PyStr(prefix \o detail)>> >>))

WeatherError(prefix, detail) ==
    Return(PyDict(<< <<S("error"), PyStr(prefix \o detail)>>,
                     <<S("forecast"), PyList(<<>>)>> >>))

\* the except clauses of get_weather_forecast, for a failed urlopen
WeatherUpstreamFailure(answer) ==
    IF answer.kind = "URLError"
    THEN WeatherError(S("Failed to fetch weather: "), S("<urlopen error>"))
    ELSE WeatherError(S("Error: "), S("timed out"))

\* geo and fc are the answers of the geocoding and of the forecast endpoint
get_weather_forecast(location, days, geo, fc) ==
    LET entered == <<Call("tool", "get_weather_forecast",
                          PyDict(<< <<S("location"), location>>, <<S("days"), PyInt(days)>> >>))>>
        geocode == Call("http", "geocode", location)
        results == DictGet(geo.data, S("results"), PyNone)
        result == results.v[1]
        lat == DictGet(result, S("latitude"), Absent)
        lon == DictGet(result, S("longitude"), Absent)
        location_name == DictGet(result, S("name"), Absent)
        forecast_req == Call("http", "forecast",
                             PyDict(<< <<S("latitude"), lat>>, <<S("longitude"), lon>>,
                                       <<S("forecast_days"), PyInt(min(days, 16))>> >>))
        daily == DictGet(fc.data, S("daily"), Absent)
        forecast == [i \in 1..Len(DictGet(daily, S("time"), PyNone).v) |-> ForecastDay(daily, i)]
    IN IF location.t # "str"
       THEN \* urllib.parse.quote rejects it
            Done(WeatherError(S("Error: "), S("quote_from_bytes() expected bytes")), entered)
       ELSE IF geo.kind # "ok"
       THEN Done(WeatherUpstreamFailure(geo), entered \o <<geocode>>)
       ELSE IF ~Truthy(results)
       THEN Done(WeatherError(S("Location '") \o location.v, S("' not found")),
                 entered \o <<geocode>>)
       ELSE IF lat = Absent \/ lon = Absent \/ location_name = Absent
       THEN Done(WeatherError(S("Error: "), S("KeyError")), entered \o <<geocode>>)
       ELSE IF fc.kind # "ok"
       THEN Done(WeatherUpstreamFailure(fc), entered \o <<geocode, forecast_req>>)
       ELSE IF daily = Absent
       THEN Done(WeatherError(S("Error: "), S("'daily'")), entered \o <<geocode, forecast_req>>)
       ELSE Done(Return(PyDict(<< <<S("location"), location_name>>,
                                  <<S("latitude"), lat>>,
                                  <<S("longitude"), lon>>,
                                  <<S("forecast_days"), PyInt(Len(forecast))>>,
                                  <<S("forecast"), PyList(forecast)>> >>)),
                 entered \o <<geocode, forecast_req>>)

\* variant: the status code reflects an error result of the tool
HandlerResponse_reflecting(code, body) ==
    Return(PyDict(<< <<S("statusCode"),
                       PyInt(IF HasKey(json_loads(body), S("error")) THEN 502 ELSE code)>>,
                     <<S("body"), body>> >>))

\* variant: the body handed back as the decoded object
HandlerResponse_structured(code, body) ==
    Return(PyDict(<< <<S("statusCode"), PyInt(code)>>, <<S("body"), json_loads(body)>> >>))

\* {"statusCode": code, "body": body}
HandlerResponse(code, body) ==
    Return(PyDict(<< <<S("statusCode"), PyInt(code)>>, <<S("body"), body>> >>))

\* {"statusCode": code, "body": json.dumps({"error": message})}
ErrorResponse(code, message) ==
    HandlerResponse(code, json_dumps(PyDict(<< <<S("error"), PyStr(message)>> >>), FALSE).value)

\* the handler's `except Exception as e` clause
WeatherExcept(e) == ErrorResponse(500, S("Internal error: ") \o e.msg)

\* the handler's answer when the event carries no location
WeatherMissingLocation == ErrorResponse(400, <<"location", " parameter is required">>)

\* variant: the unknown tool answered as "not found"
WeatherUnknownTool_404(tool_name) == ErrorResponse(404, S("Unknown tool: ") \o str(tool_name))

\* the handler's answer to a tool name it does not serve
WeatherUnknownTool(tool_name) == ErrorResponse(400, S("Unknown tool: ") \o str(tool_name))

weather_lambda_handler(event, context, geo, fc) ==
    LET logged == json_dumps(event, FALSE)
        tool_name == weather_get_tool_name(context)
        location == weather_get_named_parameter(event, S("location"))
        days == weather_get_named_parameter(event, S("days"))
        days_int == int(IF days.value = PyNone THEN PyInt(7) ELSE days.value)
        tool == get_weather_forecast(location.value, days_int.value.v, geo, fc)
        body == json_dumps(tool.ret.value, FALSE)
    IN IF logged.raised THEN Done(WeatherExcept(logged), <<>>)
       ELSE IF tool_name.raised THEN Done(WeatherExcept(tool_name), <<>>)
       ELSE IF tool_name.value = PyStr(get_weather_forecast_name)
       THEN IF location.raised THEN Done(WeatherExcept(location), <<>>)
            ELSE IF ~Truthy(location.value)
            THEN Done(WeatherMissingLocation, <<>>)
            ELSE IF days_int.raised THEN Done(WeatherExcept(days_int), <<>>)
            ELSE IF tool.ret.raised THEN Done(WeatherExcept(tool.ret), tool.calls)
            ELSE IF body.raised THEN Done(WeatherExcept(body), tool.calls)
            ELSE Done(HandlerResponse(200, body.value), tool.calls)
       ELSE Done(WeatherUnknownTool(tool_name.value), <<>>)


----------------------------------------------------------------------------
(* flight_lambda.py *)

flight_get_tool_name(context) ==
    LET cc == context.client_context
    IN IF cc.t # "obj" \/ cc.v.custom.t # "dict"
       THEN Return(PyStr(<<>>))             \* AttributeError, caught
       ELSE LET extended_tool_name ==
                    DictGet(cc.v.custom, S("bedrockAgentCoreToolName"), PyStr(<<>>))
            IN IF extended_tool_name.t = "str"
               THEN IF Contains(extended_tool_name.v, Sep)
                    THEN Return(PyStr(Split(extended_tool_name.v, Sep)[2]))
                    ELSE Return(extended_tool_name)
               ELSE LET found == InNonStr(extended_tool_name)
                    IN IF found.raised THEN found     \* TypeError, not caught here
                       ELSE IF found.value.v
                       THEN Return(PyStr(<<>>))       \* no .split: AttributeError
                       ELSE Return(extended_tool_name)

\* event.get(name)
flight_get_named_parameter(event, name) ==
    IF event.t = "dict"
    THEN Return(DictGet(event, name, PyNone))
    ELSE Raise("AttributeError", S("object has no attribute 'get'"))

\* x.upper()
upper(x) ==
    IF x.t = "str"
    THEN Return(PyStr(UpperText(x.v)))
    ELSE Raise("AttributeError", S("object has no attribute 'upper'"))

\* variant: another text is taken for the placeholder
PlaceholderKey_other == PyStr(S("changeme"))

\* the value the deployment template puts in place of a key
PlaceholderKey == PyStr(S("your_aviationstack_api_key_here"))

\* d.get(outer, {}).get(inner, "N/A") of one upstream flight
NestedGet(flight, outer, inner) ==
    LET o == DictGet(flight, outer, PyDict(<<>>))
    IN IF o.t = "dict"
       THEN Return(DictGet(o, inner, PyStr(S("N/A"))))
       ELSE Raise("AttributeError", S("object has no attribute 'get'"))

Arrival(flight) ==
    LET number == NestedGet(flight, S("flight"), S("iata"))
        airline == NestedGet(flight, S("airline"), S("name"))
        dep == NestedGet(flight, S("departure"), S("iata"))
        city == NestedGet(flight, S("departure"), S("airport"))
        arr == NestedGet(flight, S("arrival"), S("scheduled"))
    IN IF number.raised THEN number
       ELSE IF airline.raised THEN airline
       ELSE IF dep.raised THEN dep
       ELSE IF city.raised THEN city
       ELSE IF arr.raised THEN arr
       ELSE Return(PyDict(<< <<S("flight_number"), number.value>>,
                             <<S("airline"), airline.value>>,
                             <<S("departure_airport"), dep.value>>,
                             <<S("departure_city"), city.value>>,
                             <<S("arrival_time"), arr.value>>,
                             <<S("status"), DictGet(flight, S("flight_status"), PyStr(S("N/A")))>> >>))

FlightError(message, airport, note) ==
    Return(PyDict(<< <<S("error"), PyStr(message)>>, <<S("airport"), airport>> >>
                  \o note \o << <<S("flights"), PyList(<<>>)>> >>))

\* api_key is os.environ.get("AVIATIONSTACK_API_KEY"); fl is the answer of the
\* flights endpoint
get_flight_traffic(airport_code, api_key, fl) ==
    LET entered == <<Call("tool", "get_flight_traffic", airport_code)>>
        up == upper(airport_code)
        request_sent == Call("http", "flights",
                             PyDict(<< <<S("arr_iata"), up.value>>, <<S("limit"), PyInt(10)>> >>))
        flights == DictGet(fl.data, S("data"), PyList(<<>>))
        arrivals == [i \in 1..Len(flights.v) |-> Arrival(flights.v[i])]
        bad == {i \in 1..Len(flights.v) : arrivals[i].raised}
        err == DictGet(fl.data, S("error"), PyNone)
    IN IF ~Truthy(api_key) \/ api_key = PlaceholderKey
       THEN IF up.raised THEN Done(up, entered)
            ELSE Done(FlightError(
                        <<"AviationStack API key not configured. Please add ",
                          "AVIATIONSTACK_API_KEY", " to Lambda environment">>,
                        up.value,
                        << <<S("note"), PyStr(S("Get a free API key at https://aviationstack.com/"))>> >>),
                      entered)
       ELSE IF up.raised
       THEN Done(up, entered)      \* raised again by the except clause's .upper()
       ELSE IF fl.kind = "URLError"
       THEN Done(FlightError(S("Failed to fetch flight data: ") \o S("<urlopen error>"),
                             up.value, <<>>),
                 entered \o <<request_sent>>)
       ELSE IF fl.kind = "timeout"
       THEN Done(FlightError(S("Error: ") \o S("timed out"), up.value, <<>>),
                 entered \o <<request_sent>>)
       ELSE IF HasKey(fl.data, S("error"))
       THEN IF err.t = "dict"
            THEN Done(FlightError(S("API Error: ")
                                  \o str(DictGet(err, S("info"), PyStr(S("Unknown error")))),
                                  up.value, <<>>),
                      entered \o <<request_sent>>)
            ELSE Done(FlightError(S("Error: ") \o S("object has no attribute 'get'"),
                                  up.value, <<>>),
                      entered \o <<request_sent>>)
       ELSE IF bad # {}
       THEN Done(FlightError(S("Error: ") \o S("object has no attribute 'get'"), up.value, <<>>),
                 entered \o <<request_sent>>)
       ELSE Done(Return(PyDict(<< <<S("airport"), up.value>>,
                                  <<S("total_arrivals_shown"), PyInt(Len(arrivals))>>,
                                  <<S("arrivals"), PyList([i \in 1..Len(arrivals) |-> arrivals[i].value])>>,
                                  <<S("note"), PyStr(S("Showing recent/upcoming arrivals. High arrival count indicates increased rental demand."))>> >>)),
                 entered \o <<request_sent>>)

\* variant: the exception is raised again
FlightExcept_reraise(e) == e

\* the handler's `except Exception as e` clause
FlightExcept(e) == ErrorResponse(500, S("Internal error: ") \o e.msg)

\* variant: the missing argument is not named
FlightMissingAirportCode_unnamed == ErrorResponse(400, S("missing required parameter"))

\* the handler's answer when the event carries no airport_code
FlightMissingAirportCode ==
    ErrorResponse(400, <<"airport_code", " parameter is required">>)

\* the handler's answer to a tool name it does not serve
FlightUnknownTool(tool_name) == ErrorResponse(400, S("Unknown tool: ") \o str(tool_name))

flight_lambda_handler(event, context, api_key, fl) ==
    LET logged == json_dumps(event, FALSE)
        tool_name == flight_get_tool_name(context)
        airport_code == flight_get_named_parameter(event, S("airport_code"))
        tool == get_flight_traffic(airport_code.value, api_key, fl)
        body == json_dumps(tool.ret.value, FALSE)
    IN IF logged.raised THEN Done(FlightExcept(logged), <<>>)
       ELSE IF tool_name.raised THEN Done(FlightExcept(tool_name), <<>>)
       ELSE IF tool_name.value = PyStr(get_flight_traffic_name)
       THEN IF airport_code.raised THEN Done(FlightExcept(airport_code), <<>>)
            ELSE IF ~Truthy(airport_code.value)
            THEN Done(FlightMissingAirportCode, <<>>)
            ELSE IF tool.ret.raised THEN Done(FlightExcept(tool.ret), tool.calls)
            ELSE IF body.raised THEN Done(FlightExcept(body), tool.calls)
            ELSE Done(HandlerResponse(200, body.value), tool.calls)
       ELSE Done(FlightUnknownTool(tool_name.value), <<>>)


----------------------------------------------------------------------------
(* load_fleet_data.py: the seed loader that fills the table *)

\* the table holds at most MaxVehicles items in the model
MaxVehicles == 2

\* two of the ten cities, one ZIP code each
CITIES ==
    << [name |-> "Los Angeles", state |-> "CA", zip_codes |-> <<"90001">>],
       [name |-> "New York", state |-> "NY", zip_codes |-> <<"10001">>] >>

\* two of the twenty vehicle types; daily_rate is the range in cents
VEHICLES ==
    << [make |-> <<"T", "o", "y", "o", "t", "a">>, model |-> <<"R", "A", "V", "4">>,
        category |-> <<"s", "u", "v">>, daily_rate |-> <<6000, 8000>>],
       [make |-> <<"B", "M", "W">>, model |-> <<"3", " ", "S", "e", "r", "i", "e", "s">>,
        category |-> <<"l", "u", "x", "u", "r", "y">>, daily_rate |-> <<10000, 15000>>] >>

STATUSES == <<"available", "rented", "maintenance">>

\* the statuses letter by letter, as the store holds and compares them
StatusText ==
    [available |-> <<"a", "v", "a", "i", "l", "a", "b", "l", "e">>,
     rented |-> <<"r", "e", "n", "t", "e", "d">>,
     maintenance |-> <<"m", "a", "i", "n", "t", "e", "n", "a", "n", "c", "e">>]

\* the rates random.uniform draws in the model, in cents
RateDraws == {6001, 15000}

\* round(random.uniform(*vehicle["daily_rate"]), 2)
Rates(vehicle) ==
    {r \in RateDraws : vehicle.daily_rate[1] <= r /\ r <= vehicle.daily_rate[2]}

\* variant: the location is the name of the state alone
LocationOf_state(city) == <<city.state>>

\* f"{city['name']}, {city['state']}"
LocationOf(city) == <<city.name, ", ", city.state>>

\* The item generate_vehicle_data returns, with the random draws as arguments;
\* year, mileage, license_plate, vin and last_updated, which no tool reads,
\* are left out.
generate_vehicle_data(city, zip_code, vehicle, status, rate, id) ==
    PyDict(<< <<S("vehicle_id"), PyStr(<<"id-">> \o IntText(id))>>,
              <<S("make"), PyStr(vehicle.make)>>,
              <<S("model"), PyStr(vehicle.model)>>,
              <<S("category"), PyStr(vehicle.category)>>,
              <<S("status"), PyStr(StatusText[status])>>,
              <<S("location"), PyStr(LocationOf(city))>>,
              <<S("zip_code"), PyStr(S(zip_code))>>,
              <<S("daily_rate"), PyDecimal(rate)>>,
              <<S("rental_start"),
                IF status = "rented" THEN PyStr(S("2025-06-28T09:00:00")) ELSE PyNone>>,
              <<S("rental_end"),
                IF status = "rented" THEN PyStr(S("2025-07-05T09:00:00")) ELSE PyNone>> >>)

----------------------------------------------------------------------------
(* fleet_tools.py: the store adapter *)

\* item[name] of a table item
Field(item, name) == DictGet(item, name, Absent)

\* the answer of the store to a query or scan: it raises, or it returns the
\* items the table holds
StoreError == [kind |-> "ClientError", data |-> PyNone]
StoreOk == [kind |-> "ok", data |-> PyNone]
StoreOutcomes == {StoreError, StoreOk}

\* Query on zip_code-index: the items of the partition zip_code (with the sort
\* key condition, those of that status), in sort key order
IndexQuery(items, zip_code, status) ==
    LET inZip(st) == SelectSeq(items, LAMBDA it :
                        /\ Field(it, S("zip_code")) = zip_code
                        /\ Field(it, S("status")) = PyStr(StatusText[st])
                        /\ (Truthy(status) => Field(it, S("status")) = status))
    IN inZip("available") \o inZip("maintenance") \o inZip("rented")

\* variant: the store's exception is raised to the caller
search_by_zip_raising(zip_code, status, store) ==
    IF store.kind = "ok" /\ zip_code.t = "str" /\ (Truthy(status) => status.t = "str")
    THEN Done(Return(PyList(IndexQuery(table, zip_code, status))),
              <<Call("store", "query", PyList(<<zip_code, status>>))>>)
    ELSE Done(Raise("ClientError", S("An error occurred when calling the Query operation")),
              <<Call("store", "query", PyList(<<zip_code, status>>))>>)

\* variant: a failed query is made a second time
search_by_zip_retrying(zip_code, status, store) ==
    IF store.kind = "ok" /\ zip_code.t = "str" /\ (Truthy(status) => status.t = "str")
    THEN Done(Return(PyList(IndexQuery(table, zip_code, status))),
              <<Call("store", "query", PyList(<<zip_code, status>>))>>)
    ELSE Done(Return(PyList(<<>>)),
              <<Call("store", "query", PyList(<<zip_code, status>>)),
                Call("store", "query", PyList(<<zip_code, status>>))>>)

\* _search_by_zip: boto3 raises when the store fails and when a key value is
\* not a string
search_by_zip(zip_code, status, store) ==
    IF store.kind = "ok" /\ zip_code.t = "str" /\ (Truthy(status) => status.t = "str")
    THEN Done(Return(PyList(IndexQuery(table, zip_code, status))),
              <<Call("store", "query", PyList(<<zip_code, status>>))>>)
    ELSE Done(Return(PyList(<<>>)),
              <<Call("store", "query", PyList(<<zip_code, status>>))>>)

\* Limit=100 of the scan
ScanLimit == 100

\* variant: the category is compared as it was passed
ScanFilter_cased(item, make, model, category, status) ==
    /\ Truthy(make) => Contains(Field(item, S("make")).v, TitleText(make.v))
    /\ Truthy(model) => Contains(Field(item, S("model")).v, TitleText(model.v))
    /\ Truthy(category) => Field(item, S("category")) = category
    /\ Truthy(status) => Field(item, S("status")) = status

\* variant: the provided filters are alternatives
ScanFilter_any(item, make, model, category, status) ==
    \/ ~(Truthy(make) \/ Truthy(model) \/ Truthy(category) \/ Truthy(status))
    \/ Truthy(make) /\ Contains(Field(item, S("make")).v, TitleText(make.v))
    \/ Truthy(model) /\ Contains(Field(item, S("model")).v, TitleText(model.v))
    \/ Truthy(category) /\ Field(item, S("category")) = PyStr(LowerText(category.v))
    \/ Truthy(status) /\ Field(item, S("status")) = status

\* the filter expression of _search_vehicles, on one item
ScanFilter(item, make, model, category, status) ==
    /\ Truthy(make) => Contains(Field(item, S("make")).v, TitleText(make.v))
    /\ Truthy(model) => Contains(Field(item, S("model")).v, TitleText(model.v))
    /\ Truthy(category) => Field(item, S("category")) = PyStr(LowerText(category.v))
    /\ Truthy(status) => Field(item, S("status")) = status

\* variant: the scan is continued to the end of the table
TableScan_unbounded(items, make, model, category, status) ==
    SelectSeq(items, LAMBDA it : ScanFilter(it, make, model, category, status))

\* Scan with Limit: the first ScanLimit items are examined, the filter is
\* applied to them
TableScan(items, make, model, category, status) ==
    SelectSeq(SubSeq(items, 1, min(Len(items), ScanLimit)),
             LAMBDA it : ScanFilter(it, make, model, category, status))

\* _search_vehicles: .title() and .lower() raise on what is not a string
search_vehicles(make, model, category, status, store) ==
    IF \E f \in {make, model, category} : Truthy(f) /\ f.t # "str"
    THEN Done(Return(PyList(<<>>)), <<>>)
    ELSE IF store.kind = "ok"
    THEN Done(Return(PyList(TableScan(table, make, model, category, status))),
              <<Call("store", "scan", PyList(<<make, model, category, status>>))>>)
    ELSE Done(Return(PyList(<<>>)),
              <<Call("store", "scan", PyList(<<make, model, category, status>>))>>)

----------------------------------------------------------------------------
(* fleet_tools.py: the fleet tools *)

\* the distinct elements of a sequence, in order of first appearance
RECURSIVE Distinct(_)
Distinct(seq) ==
    IF seq = <<>>
    THEN <<>>
    ELSE LET front == Distinct(SubSeq(seq, 1, Len(seq) - 1))
             last == seq[Len(seq)]
         IN IF \E i \in 1..Len(front) : front[i] = last THEN front ELSE Append(front, last)

\* the number of positions of a sequence that hold x
Occurrences(seq, x) == Cardinality({i \in 1..Len(seq) : seq[i] = x})

\* Series.value_counts().to_dict(): the values with their counts, the most
\* frequent first, from count c downwards
RECURSIVE value_counts(_, _)
value_counts(seq, c) ==
    IF c = 0
    THEN <<>>
    ELSE LET withCount == SelectSeq(Distinct(seq), LAMBDA x : Occurrences(seq, x) = c)
         IN [i \in 1..Len(withCount) |-> <<withCount[i].v, PyInt(c)>>]
            \o value_counts(seq, c - 1)

\* the sum of the daily rates of a list of items, in cents
RECURSIVE SumRates(_)
SumRates(items) ==
    IF items = <<>> THEN 0 ELSE Field(items[1], S("daily_rate")).v + SumRates(Tail(items))

\* whether the mean of n values whose sum is total lies exactly between two
\* hundredths
IsTie(total, n) == 2 * (total % n) = n

\* variant: the mean is rounded to whole units
RoundedMean_whole(total, n, tieUp) ==
    100 * ((total + 50 * n) \div (100 * n))

\* round(df["daily_rate"].mean(), 2): pandas sums the Decimals and divides as
\* floats; a mean exactly between two hundredths rounds either way, depending
\* on the binary representation of the quotient
RoundedMean(total, n, tieUp) ==
    LET q == total \div n
        r == total % n
    IN IF 2 * r > n \/ (2 * r = n /\ tieUp) THEN q + 1 ELSE q

\* len(df[df["status"] == st])
CountStatus(vehicles, st) ==
    Len(SelectSeq(vehicles, LAMBDA it : Field(it, S("status")) = PyStr(StatusText[st])))

\* variant: the maintenance count is left out of the summary
SummaryOf_no_maintenance(zip_code, vehicles, tieUp) ==
    PyDict(<< <<S("zip_code"), zip_code>>,
              <<S("location"), Field(vehicles[1], S("location"))>>,
              <<S("total_vehicles"), PyInt(Len(vehicles))>>,
              <<S("available"), PyInt(CountStatus(vehicles, "available"))>>,
              <<S("rented"), PyInt(CountStatus(vehicles, "rented"))>>,
              <<S("maintenance"), PyInt(0)>>,
              <<S("categories"),
                PyDict(value_counts([i \in 1..Len(vehicles) |->
                                        Field(vehicles[i], S("category"))], Len(vehicles)))>>,
              <<S("avg_daily_rate"),
                PyFloat(RoundedMean(SumRates(vehicles), Len(vehicles), tieUp))>> >>)

\* the summary _get_summary builds from a non-empty list of vehicles
SummaryOf(zip_code, vehicles, tieUp) ==
    PyDict(<< <<S("zip_code"), zip_code>>,
              <<S("location"), Field(vehicles[1], S("location"))>>,
              <<S("total_vehicles"), PyInt(Len(vehicles))>>,
              <<S("available"), PyInt(CountStatus(vehicles, "available"))>>,
              <<S("rented"), PyInt(CountStatus(vehicles, "rented"))>>,
              <<S("maintenance"), PyInt(CountStatus(vehicles, "maintenance"))>>,
              <<S("categories"),
                PyDict(value_counts([i \in 1..Len(vehicles) |->
                                        Field(vehicles[i], S("category"))], Len(vehicles)))>>,
              <<S("avg_daily_rate"),
                PyFloat(RoundedMean(SumRates(vehicles), Len(vehicles), tieUp))>> >>)

\* f"No vehicles found for {zip_code}"
NoVehiclesFor(zip_code) == S("No vehicles found for ") \o str(zip_code)

\* _get_summary
get_summary(zip_code, store, tieUp) ==
    LET found == search_by_zip(zip_code, PyNone, store)
        vehicles == found.ret.value
    IN IF ~Truthy(vehicles)
       THEN Done(Return(PyDict(<< <<S("error"), PyStr(NoVehiclesFor(zip_code))>> >>)),
                 found.calls)
       ELSE Done(Return(SummaryOf(zip_code, vehicles.v, tieUp)), found.calls)

\* a tool that returns json.dumps(value), after the calls made so far
Dumped(value, useDefault, made) == Done(json_dumps(value, useDefault), made)

\* variant: the empty result keeps the keys of the non-empty one
NoVehiclesResult_counted(zip_code) ==
    PyDict(<< <<S("zip_code"), zip_code>>,
              <<S("count"), PyInt(0)>>,
              <<S("message"), PyStr(NoVehiclesFor(zip_code))>>,
              <<S("vehicles"), PyList(<<>>)>> >>)

\* the result of search_fleet_by_zip when no vehicle was found
NoVehiclesResult(zip_code) ==
    PyDict(<< <<S("message"), PyStr(NoVehiclesFor(zip_code))>>,
              <<S("vehicles"), PyList(<<>>)>> >>)

\* search_fleet_by_zip
search_fleet_by_zip(zip_code, status, store) ==
    LET found == search_by_zip(zip_code, status, store)
        vehicles == found.ret.value
    IN IF found.ret.raised
       THEN Done(found.ret, found.calls)
       ELSE IF ~Truthy(vehicles)
       THEN Dumped(NoVehiclesResult(zip_code), FALSE, found.calls)
       ELSE Dumped(PyDict(<< <<S("zip_code"), zip_code>>,
                             <<S("location"), Field(vehicles.v[1], S("location"))>>,
                             <<S("count"), PyInt(Len(vehicles.v))>>,
                             <<S("vehicles"), vehicles>> >>),
                   TRUE, found.calls)

\* the search_terms of search_vehicles_general
SearchTerms(make, model, category, status) ==
    (IF Truthy(make) THEN <<S("make: ") \o str(make)>> ELSE <<>>)
    \o (IF Truthy(model) THEN <<S("model: ") \o str(model)>> ELSE <<>>)
    \o (IF Truthy(category) THEN <<S("category: ") \o str(category)>> ELSE <<>>)
    \o (IF Truthy(status) THEN <<S("status: ") \o str(status)>> ELSE <<>>)

\* variant: a location keeps only the first of its vehicles
GroupByLocation_first(vehicles) ==
    LET locs == Distinct([i \in 1..Len(vehicles) |-> Field(vehicles[i], S("location"))])
    IN [i \in 1..Len(locs) |->
            <<locs[i].v,
              PyList(<<SelectSeq(vehicles, LAMBDA v : Field(v, S("location")) = locs[i])[1]>>)>>]

\* the locations dict of search_vehicles_general: the vehicles of each
\* location, the locations in order of first appearance
GroupByLocation(vehicles) ==
    LET locs == Distinct([i \in 1..Len(vehicles) |-> Field(vehicles[i], S("location"))])
    IN [i \in 1..Len(locs) |->
            <<locs[i].v,
              PyList(SelectSeq(vehicles, LAMBDA v : Field(v, S("location")) = locs[i]))>>]

\* search_vehicles_general
search_vehicles_general(make, model, category, status, store) ==
    LET found == search_vehicles(make, model, category, status, store)
        vehicles == found.ret.value
        locations == GroupByLocation(vehicles.v)
    IN IF ~Truthy(vehicles)
       THEN Dumped(PyDict(<< <<S("message"),
                               PyStr(S("No vehicles found matching ")
                                     \o Join(SearchTerms(make, model, category, status),
                                             S(", ")))>>,
                             <<S("vehicles"), PyList(<<>>)>> >>),
                   FALSE, found.calls)
       ELSE Dumped(PyDict(<< <<S("count"), PyInt(Len(vehicles.v))>>,
                             <<S("locations_found"), PyInt(Len(locations))>>,
                             <<S("vehicles"), vehicles>>,
                             <<S("by_location"), PyDict(locations)>> >>),
                   TRUE, found.calls)

\* get_fleet_summary
get_fleet_summary(zip_code, store, tieUp) ==
    LET summary == get_summary(zip_code, store, tieUp)
    IN Dumped(summary.ret.value, TRUE, summary.calls)

----------------------------------------------------------------------------
(* fleet_tools.py: the holiday and event tools *)

\* whether datetime.fromisoformat accepts a text as a YYYY-MM-DD date
IsIsoDate(s) ==
    /\ Len(s) = 10
    /\ s[5] = "-" /\ s[8] = "-"
    /\ \A i \in {1, 2, 3, 4, 6, 7, 9, 10} : IsDigit(s[i])
    /\ DigitsValue(SubSeq(s, 6, 7), 0) \in 1..12
    /\ DigitsValue(SubSeq(s, 9, 10), 0) \in 1..31

\* variant: the day of the month is taken for the month
MonthOf_day(s) == DigitsValue(SubSeq(s, 9, 10), 0)

\* datetime.fromisoformat(s).month
MonthOf(s) == DigitsValue(SubSeq(s, 6, 7), 0)

\* one entry of formatted_holidays
FormattedHoliday(holiday) ==
    PyDict(<< <<S("date"), Field(holiday, S("date"))>>,
              <<S("name"), Field(holiday, S("name"))>>,
              <<S("localName"), DictGet(holiday, S("localName"), Field(holiday, S("name")))>>,
              <<S("countryCode"), Field(holiday, S("countryCode"))>>,
              <<S("global"), DictGet(holiday, S("global"), PyBool(FALSE))>>,
              <<S("types"), DictGet(holiday, S("types"), PyList(<<>>))>> >>)

\* variant: the error result carries no collection
ToolError_bare(prefix, detail, collection) ==
    PyDict(<< <<S("error"), PyStr(prefix \o detail)>> >>)

\* the result of a holiday or event tool that caught an exception
ToolError(prefix, detail, collection) ==
    PyDict(<< <<S("error"), PyStr(prefix \o detail)>>, <<collection, PyList(<<>>)>> >>)

\* the exception requests raises for an answer that is not a 2xx
RequestFailure(answer) ==
    IF answer.kind = "timeout" THEN S("Read timed out") ELSE S("HTTP error or connection error")

\* the exception h['date'], fromisoformat or the formatting of a holiday
\* entry raises, as str(e); <<>> when it raises none
HolidayFault(h, filtered) ==
    IF h.t # "dict" THEN S("string indices must be integers")
    ELSE IF ~HasKey(h, S("date")) THEN S("'date'")
    ELSE IF filtered /\ Field(h, S("date")).t # "str" THEN S("fromisoformat: argument must be str")
    ELSE IF filtered /\ ~IsIsoDate(Field(h, S("date")).v) THEN S("Invalid isoformat string")
    ELSE <<>>

\* the exception the formatting of a holiday entry raises, as str(e)
FormatFault(h) ==
    IF HolidayFault(h, FALSE) # <<>> THEN HolidayFault(h, FALSE)
    ELSE IF ~HasKey(h, S("name")) THEN S("'name'")
    ELSE IF ~HasKey(h, S("countryCode")) THEN S("'countryCode'")
    ELSE <<>>

\* get_national_holidays; this_year is datetime.now().year, hol the answer
\* of the holiday service
get_national_holidays(year, month, this_year, hol) ==
    LET y == IF year = PyNone THEN PyInt(this_year) ELSE year
        request_made == <<Call("http", "holidays", y)>>
        \* iterating a JSON object yields its keys
        holidays == IF hol.data.t = "list"
                    THEN hol.data.v
                    ELSE [i \in 1..Len(hol.data.v) |-> PyStr(hol.data.v[i][1])]
        unread == SelectSeq(holidays, LAMBDA h : HolidayFault(h, TRUE) # <<>>)
        kept == IF month # PyNone
                THEN SelectSeq(holidays, LAMBDA h :
                                PyInt(MonthOf(Field(h, S("date")).v)) = month)
                ELSE holidays
        unformatted == SelectSeq(kept, LAMBDA h : FormatFault(h) # <<>>)
    IN IF hol.kind # "ok"
       THEN Dumped(ToolError(S("Failed to fetch holidays: "), RequestFailure(hol),
                             S("holidays")),
                   FALSE, request_made)
       ELSE IF month # PyNone /\ unread # <<>>
       THEN Dumped(ToolError(S("Error: "), HolidayFault(unread[1], TRUE), S("holidays")),
                   FALSE, request_made)
       ELSE IF unformatted # <<>>
       THEN Dumped(ToolError(S("Error: "), FormatFault(unformatted[1]), S("holidays")),
                   FALSE, request_made)
       ELSE Dumped(PyDict(<< <<S("year"), y>>,
                             <<S("month"), IF Truthy(month) THEN month ELSE PyStr(S("all"))>>,
                             <<S("count"), PyInt(Len(kept))>>,
                             <<S("holidays"),
                               PyList([i \in 1..Len(kept) |-> FormattedHoliday(kept[i])])>> >>),
                   FALSE, request_made)

\* a calendar day is held as its day number; strftime("%Y-%m-%d") and the
\* YYYY-MM-DD arguments are its decimal text
DateText(day) == IntText(day)

\* datetime.now().strftime("%Y-%m-%dT%H:%M:%SZ")
NowText(today) == DateText(today) \o S("T10:30:00Z")

\* pd.Timedelta(days=30)
DefaultRangeDays == 30

\* min(size, 200)
SizeCap == 200

\* d.get(k, {}) where the value found has to be a dict for the next .get
SubDict(d, k) == DictGet(d, k, PyDict(<<>>))

\* venue.get(outer, {}).get(inner, "Unknown")
VenuePart(venue, outer, inner) ==
    DictGet(SubDict(venue, outer), inner, PyStr(S("Unknown")))

\* whether formatting an upstream event raises: an index into an empty list,
\* or .get on what is not a dict
EventRaises(event) ==
    \/ event.t # "dict"
    \/ /\ HasKey(event, S("_embedded"))
       /\ \/ Field(event, S("_embedded")).t # "dict"
          \/ /\ HasKey(Field(event, S("_embedded")), S("venues"))
             /\ LET venues == Field(Field(event, S("_embedded")), S("venues"))
                IN \/ venues.t # "list"
                   \/ venues.v = <<>>
                   \/ venues.v[1].t # "dict"
                   \/ \E k \in {"city", "state", "address"} :
                        SubDict(venues.v[1], S(k)).t # "dict"
    \/ SubDict(event, S("dates")).t # "dict"
    \/ SubDict(SubDict(event, S("dates")), S("start")).t # "dict"
    \/ LET cls == DictGet(event, S("classifications"), PyList(<<PyDict(<<>>)>>))
       IN \/ cls.t # "list"
          \/ cls.v = <<>>
          \/ cls.v[1].t # "dict"
          \/ \E k \in {"segment", "genre"} : SubDict(cls.v[1], S(k)).t # "dict"

\* venue_info of an upstream event
VenueInfo(event) ==
    IF HasKey(event, S("_embedded")) /\ HasKey(Field(event, S("_embedded")), S("venues"))
    THEN LET venue == Field(Field(event, S("_embedded")), S("venues")).v[1]
         IN PyDict(<< <<S("name"), DictGet(venue, S("name"), PyStr(S("Unknown")))>>,
                      <<S("city"), VenuePart(venue, S("city"), S("name"))>>,
                      <<S("state"), VenuePart(venue, S("state"), S("stateCode"))>>,
                      <<S("address"), VenuePart(venue, S("address"), S("line1"))>> >>)
    ELSE PyDict(<<>>)

\* one entry of formatted_events
FormattedEvent(event) ==
    LET start_info == SubDict(SubDict(event, S("dates")), S("start"))
        classifications == DictGet(event, S("classifications"), PyList(<<PyDict(<<>>)>>)).v[1]
    IN PyDict(<< <<S("name"), DictGet(event, S("name"), PyStr(S("Unknown")))>>,
                 <<S("date"), DictGet(start_info, S("localDate"), PyStr(S("Unknown")))>>,
                 <<S("time"), DictGet(start_info, S("localTime"), PyStr(S("TBD")))>>,
                 <<S("type"), VenuePart(classifications, S("segment"), S("name"))>>,
                 <<S("genre"), VenuePart(classifications, S("genre"), S("name"))>>,
                 <<S("venue"), VenueInfo(event)>>,
                 <<S("url"), DictGet(event, S("url"), PyStr(<<>>))>>,
                 <<S("priceRanges"), DictGet(event, S("priceRanges"), PyList(<<>>))>> >>)

\* get_local_events; api_key is os.getenv("TICKETMASTER_API_KEY"), today is
\* datetime.now(), ev the answer of the event service
get_local_events(zip_code, start_date, end_date, size, api_key, today, ev) ==
    LET startDateTime == IF start_date = PyNone
                         THEN NowText(today)
                         ELSE str(start_date) \o S("T00:00:00Z")
        endDateTime == IF end_date = PyNone
                       THEN NowText(today + DefaultRangeDays)
                       ELSE str(end_date) \o S("T23:59:59Z")
        request_made ==
            <<Call("http", "events",
                   PyDict(<< <<S("apikey"), api_key>>,
                             <<S("postalCode"), zip_code>>,
                             <<S("countryCode"), PyStr(S("US"))>>,
                             <<S("startDateTime"), PyStr(startDateTime)>>,
                             <<S("endDateTime"), PyStr(endDateTime)>>,
                             <<S("size"), PyInt(min(size.v, SizeCap))>>,
                             <<S("sort"), PyStr(S("date,asc"))>> >>))>>
        data == ev.data
        events == Field(Field(data, S("_embedded")), S("events"))
    IN IF ~Truthy(api_key)
       THEN Dumped(ToolError(S("Ticketmaster API key not configured. Set "),
                             <<"TICKETMASTER_API_KEY", " environment variable.">>,
                             S("events")),
                   FALSE, <<>>)
       ELSE IF size.t # "int"
       THEN Dumped(ToolError(S("Error: "), S("'<' not supported between instances"),
                             S("events")),
                   FALSE, <<>>)
       ELSE IF ev.kind # "ok"
       THEN Dumped(ToolError(S("Failed to fetch events: "), RequestFailure(ev), S("events")),
                   FALSE, request_made)
       ELSE IF data.t # "dict"
       THEN Dumped(ToolError(S("Error: "), S("list indices must be integers"), S("events")),
                   FALSE, request_made)
       ELSE IF ~HasKey(data, S("_embedded"))
       THEN Dumped(PyDict(<< <<S("zip_code"), zip_code>>,
                             <<S("count"), PyInt(0)>>,
                             <<S("events"), PyList(<<>>)>>,
                             <<S("message"),
                               PyStr(S("No events found for ZIP code ") \o str(zip_code))>> >>),
                   FALSE, request_made)
       ELSE IF Field(data, S("_embedded")).t # "dict"
       THEN Dumped(ToolError(S("Error: "), S("argument is not iterable"), S("events")),
                   FALSE, request_made)
       ELSE IF ~HasKey(Field(data, S("_embedded")), S("events"))
       THEN Dumped(PyDict(<< <<S("zip_code"), zip_code>>,
                             <<S("count"), PyInt(0)>>,
                             <<S("events"), PyList(<<>>)>>,
                             <<S("message"),
                               PyStr(S("No events found for ZIP code ") \o str(zip_code))>> >>),
                   FALSE, request_made)
       ELSE IF events.t # "list"
       THEN Dumped(ToolError(S("Error: "), S("object is not iterable"), S("events")),
                   FALSE, request_made)
       ELSE IF \E i \in 1..Len(events.v) : EventRaises(events.v[i])
       THEN Dumped(ToolError(S("Error: "), S("list index out of range"), S("events")),
                   FALSE, request_made)
       ELSE Dumped(PyDict(<< <<S("zip_code"), zip_code>>,
                             <<S("count"), PyInt(Len(events.v))>>,
                             <<S("events"),
                               PyList([i \in 1..Len(events.v) |-> FormattedEvent(events.v[i])])>>,
                             <<S("page"), DictGet(data, S("page"), PyDict(<<>>))>> >>),
                   FALSE, request_made)

----------------------------------------------------------------------------
(* The remote surface: the gateway invokes the two Lambda handlers *)

\* the number of "___"-separated parts of a tool identifier goes up to MaxParts
MaxParts == 3

\* the parts tool identifiers are made of
Parts == {<<>>, S("WeatherTarget"), S("bogus"),
          get_weather_forecast_name, get_flight_traffic_name}

RECURSIVE PartSeqs(_)
PartSeqs(n) ==
    IF n = 0 THEN {<<>>}
    ELSE {Append(ps, p) : ps \in PartSeqs(n - 1), p \in Parts}

\* the second kind of identifier has a target name that ends in an underscore
ToolIdentifiers ==
    {Join(ps, Sep) : ps \in UNION {PartSeqs(n) : n \in 1..MaxParts}}
    \cup {Join(<<<<"Target", "_">>, name>>, Sep) :
            name \in {get_weather_forecast_name, get_flight_traffic_name}}

\* a dict of the given pairs, the Absent ones left out
DictOf(pairs) == PyDict(SelectSeq(pairs, LAMBDA p : p[2] # Absent))

\* a Lambda context object: client_context is the attribute the runtime sets
\* (None when the invoker sent none), executionMetadata the field of the
\* documented envelope
Context(client_context, executionMetadata) ==
    [client_context |-> client_context, executionMetadata |-> executionMetadata]
ClientContext(custom) == [t |-> "obj", v |-> [custom |-> custom]]

GatewayContexts ==
    {Context(ClientContext(DictOf(<< <<S("bedrockAgentCoreToolName"), name>> >>)), Absent) :
        name \in {Absent, PyNone, PyInt(5)} \cup {PyStr(id) : id \in ToolIdentifiers}}

EnvelopeContexts ==
    {Context(cc, PyDict(<< <<S("toolIdentifier"), PyStr(Join(<<S("WeatherTarget"), name>>, Sep))>> >>)) :
        cc \in {Absent, PyNone, ClientContext(PyNone)},
        name \in {get_weather_forecast_name, get_flight_traffic_name}}

Contexts == GatewayContexts \cup EnvelopeContexts

WeatherEvents ==
    {DictOf(<< <<S("location"), location>>, <<S("days"), days>> >>) :
        location \in {Absent, PyNone, PyStr(<<>>), PyStr(S("Paris")), PyInt(5)},
        days \in {Absent, PyInt(3), PyInt(20), PyStr(S("3")), PyStr(S("soon"))}}
    \cup {PyNone, DictOf(<< <<S("location"), PyObject>> >>)}

FlightEvents ==
    {DictOf(<< <<S("airport_code"), code>> >>) :
        code \in {Absent, PyNone, PyStr(<<>>), PyStr(<<"l", "a", "x">>), PyInt(5)}}
    \cup {PyNone, DictOf(<< <<S("airport_code"), PyObject>> >>)}

\* the forecast endpoint returns at most MaxForecast days in the model
MaxForecast == 2

GeoResult == PyDict(<< <<S("name"), PyStr(S("Paris"))>>,
                       <<S("latitude"), PyFloat(4885)>>,
                       <<S("longitude"), PyFloat(235)>> >>)

\* a second place of the same name
GeoSecond == PyDict(<< <<S("name"), PyStr(S("Paris"))>>,
                       <<S("latitude"), PyFloat(4320)>>,
                       <<S("longitude"), PyFloat(8038)>> >>)

GeoAnswers ==
    {UrlError, TimedOut,
     Answered(PyDict(<<>>)),
     Answered(PyDict(<< <<S("results"), PyList(<<>>)>> >>)),
     Answered(PyDict(<< <<S("results"), PyList(<<GeoResult, GeoSecond>>)>> >>)),
     Answered(PyDict(<< <<S("results"), PyList(<<PyDict(<< <<S("name"), PyStr(S("Paris"))>> >>)>>)>> >>))}

Daily(n) ==
    PyDict(<< <<S("time"), PyList([i \in 1..n |-> PyStr(<<"2025-07-0", Digits[i + 1]>>)])>>,
              <<S("temperature_2m_max"), PyList([i \in 1..n |-> PyInt(80 + i)])>>,
              <<S("temperature_2m_min"), PyList([i \in 1..n |-> PyInt(60 + i)])>>,
              <<S("precipitation_sum"), PyList([i \in 1..n |-> PyInt(0)])>>,
              <<S("precipitation_probability_max"), PyList([i \in 1..n |-> PyInt(10 * i)])>>,
              <<S("weathercode"), PyList([i \in 1..n |-> PyInt(i)])>> >>)

ForecastAnswers ==
    {UrlError, TimedOut, Answered(PyDict(<<>>))}
    \cup {Answered(PyDict(<< <<S("daily"), Daily(n)>> >>)) : n \in 0..MaxForecast}

UpstreamFlight(full) ==
    IF full
    THEN PyDict(<< <<S("flight"), PyDict(<< <<S("iata"), PyStr(S("AA100"))>> >>)>>,
                   <<S("airline"), PyDict(<< <<S("name"), PyStr(S("American"))>> >>)>>,
                   <<S("departure"), PyDict(<< <<S("iata"), PyStr(S("JFK"))>>,
                                               <<S("airport"), PyStr(S("Kennedy"))>> >>)>>,
                   <<S("arrival"), PyDict(<< <<S("scheduled"), PyStr(S("2025-07-01T10:00"))>> >>)>>,
                   <<S("flight_status"), PyStr(S("landed"))>> >>)
    ELSE PyDict(<< <<S("airline"), PyDict(<<>>)>>, <<S("departure"), PyNone>> >>)

FlightAnswers ==
    {UrlError, TimedOut,
     Answered(PyDict(<<>>)),
     Answered(PyDict(<< <<S("error"), PyDict(<< <<S("info"), PyStr(S("Invalid key"))>> >>)>> >>)),
     Answered(PyDict(<< <<S("error"), PyDict(<<>>)>> >>)),
     Answered(PyDict(<< <<S("data"), PyList(<<UpstreamFlight(TRUE)>>)>> >>)),
     Answered(PyDict(<< <<S("data"), PyList(<<UpstreamFlight(TRUE), PyDict(<<>>)>>)>> >>)),
     Answered(PyDict(<< <<S("data"), PyList(<<UpstreamFlight(FALSE)>>)>> >>))}

AviationKeys ==
    {PyNone, PyStr(<<>>), PyStr(S("your_aviationstack_api_key_here")), PyStr(S("k-123"))}

Env(aviation, ticketmaster) ==
    [AVIATIONSTACK_API_KEY |-> aviation, TICKETMASTER_API_KEY |-> ticketmaster]

\* an invocation: the operation, its arguments, and what the endpoints it
\* asked have answered
Invocation(op, event, context, upstream) ==
    [op |-> op, event |-> event, context |-> context, upstream |-> upstream]

\* no deployment script is running
NoScript ==
    /\ pc = "none"
    /\ cloud = "none"
    /\ deploy_status = "none"
    /\ polls = 0
    /\ elapsed_time = 0
    /\ ssm = {}
    /\ outcome = [reported |-> "none", code |-> 0]

NoRequest == Invocation("none", PyNone, Context(Absent, Absent), <<>>)

\* no invocation is in progress
Idle == request.op = "none"

\* An endpoint answers only when it is asked: the answers of an endpoint the
\* invocation never calls are not drawn.
Asked(log, target, answers) ==
    IF CountCalls(log, "http", target) = 0 THEN {UrlError} ELSE answers

\* the gateway invokes the weather Lambda
WeatherInvoke ==
    /\ Idle
    /\ \E event \in WeatherEvents, context \in Contexts :
        \E geo \in Asked(weather_lambda_handler(event, context, UrlError, UrlError).calls,
                         "geocode", GeoAnswers) :
        \E fc \in Asked(weather_lambda_handler(event, context, geo, UrlError).calls,
                        "forecast", ForecastAnswers) :
            LET out == weather_lambda_handler(event, context, geo, fc)
            IN /\ request' = Invocation("weather_lambda", event, context, <<geo, fc>>)
               /\ response' = out.ret
               /\ calls' = out.calls
               /\ UNCHANGED <<table, env, script>>

\* the gateway invokes the flight Lambda
FlightInvoke ==
    /\ Idle
    /\ \E event \in FlightEvents, context \in Contexts :
        \E fl \in Asked(flight_lambda_handler(event, context, env.AVIATIONSTACK_API_KEY,
                                              UrlError).calls,
                        "flights", FlightAnswers) :
            LET out == flight_lambda_handler(event, context, env.AVIATIONSTACK_API_KEY, fl)
            IN /\ request' = Invocation("flight_lambda", event, context, <<fl>>)
               /\ response' = out.ret
               /\ calls' = out.calls
               /\ UNCHANGED <<table, env, script>>

\* the caller has its answer; the process waits for the next invocation
Finish ==
    /\ ~Idle
    /\ request' = NoRequest
    /\ response' = Return(PyNone)
    /\ calls' = <<>>
    /\ UNCHANGED <<table, env, script>>

InitLambda ==
    /\ table = <<>>
    /\ env \in {Env(k, PyNone) : k \in AviationKeys}
    /\ request = NoRequest
    /\ response = Return(PyNone)
    /\ calls = <<>>
    /\ NoScript

NextLambda == WeatherInvoke \/ FlightInvoke \/ Finish

SpecLambda == InitLambda /\ [][NextLambda]_vars


----------------------------------------------------------------------------
(* The local surface: the agent calls the tools in process *)

\* what the agent passes to the tools
ZipCodes == {PyStr(S("90001")), PyStr(S("99999"))}
StatusFilters ==
    {PyNone, PyStr(StatusText.available), PyStr(TitleText(StatusText.available))}
Makes == {PyNone, PyStr(<<"t", "o", "y", "o", "t", "a">>)}
Models == {PyNone, PyStr(<<"r", "a", "v", "4">>)}
Categories == {PyNone, PyStr(<<"S", "U", "V">>)}
Years == {PyNone, PyInt(2025)}
Months == {PyNone, PyInt(2), PyInt(7), PyInt(12)}
Sizes == {PyInt(20), PyInt(500)}
Locations == {PyStr(S("Paris")), PyNone}
DaysArguments == {7, 20}
AirportCodes == {PyStr(<<"l", "a", "x">>)}

\* datetime.now(): the day number and the year of the clock
Today == 100
ThisYear == 2025

\* the dates the agent passes, as YYYY-MM-DD texts
DateArguments == {PyNone, PyStr(DateText(Today + 60))}

\* what the holiday service answers
Holiday(date, name, full) ==
    PyDict(<< <<S("date"), PyStr(date)>>, <<S("name"), PyStr(S(name))>>,
              <<S("countryCode"), PyStr(S("US"))>> >>
           \o IF full
              THEN << <<S("localName"), PyStr(S(name))>>, <<S("global"), PyBool(TRUE)>>,
                      <<S("types"), PyList(<<PyStr(S("Public"))>>)>> >>
              ELSE <<>>)

July4 == <<"2", "0", "2", "5", "-", "0", "7", "-", "0", "4">>
Christmas == <<"2", "0", "2", "5", "-", "1", "2", "-", "2", "5">>

HolidayAnswers ==
    {UrlError, TimedOut,
     Answered(PyList(<<Holiday(July4, "Independence Day", TRUE),
                       Holiday(Christmas, "Christmas Day", FALSE)>>)),
     Answered(PyList(<<Holiday(July4, "Independence Day", TRUE),
                       PyDict(<< <<S("date"), PyStr(Christmas)>> >>)>>))}

\* what the event service answers
UpstreamEvent(full) ==
    IF full
    THEN PyDict(<< <<S("name"), PyStr(S("Concert"))>>,
                   <<S("url"), PyStr(S("https://tm/1"))>>,
                   <<S("dates"), PyDict(<< <<S("start"),
                        PyDict(<< <<S("localDate"), PyStr(DateText(Today + 3))>>,
                                  <<S("localTime"), PyStr(S("19:00:00"))>> >>)>> >>)>>,
                   <<S("classifications"), PyList(<<PyDict(<<
                        <<S("segment"), PyDict(<< <<S("name"), PyStr(S("Music"))>> >>)>>,
                        <<S("genre"), PyDict(<< <<S("name"), PyStr(S("Rock"))>> >>)>> >>)>>)>>,
                   <<S("_embedded"), PyDict(<< <<S("venues"), PyList(<<PyDict(<<
                        <<S("name"), PyStr(S("Arena"))>>,
                        <<S("city"), PyDict(<< <<S("name"), PyStr(S("Los Angeles"))>> >>)>>,
                        <<S("state"), PyDict(<< <<S("stateCode"), PyStr(S("CA"))>> >>)>> >>)>>)>> >>)>> >>)
    ELSE PyDict(<< <<S("name"), PyStr(S("Game"))>> >>)

EventAnswers ==
    {UrlError, TimedOut,
     Answered(PyDict(<< <<S("page"), PyDict(<< <<S("totalElements"), PyInt(0)>> >>)>> >>)),
     Answered(PyDict(<< <<S("_embedded"),
                          PyDict(<< <<S("events"),
                                      PyList(<<UpstreamEvent(TRUE), UpstreamEvent(FALSE)>>)>> >>)>> >>)),
     Answered(PyDict(<< <<S("_embedded"),
                          PyDict(<< <<S("events"),
                                      PyList(<<PyDict(<< <<S("classifications"),
                                                           PyList(<<>>)>> >>)>>)>> >>)>> >>))}

\* the environments the process is started in
Environments ==
    {Env(PyNone, PyNone), Env(PyStr(S("your_aviationstack_api_key_here")), PyStr(<<>>)),
     Env(PyStr(<<>>), PyStr(S("tm-456"))), Env(PyStr(S("k-123")), PyStr(S("tm-456")))}

\* an invocation of a tool in process: its name and its keyword arguments
ToolCall(op, args, upstream) == Invocation(op, PyDict(args), Context(Absent, Absent), upstream)

\* the rounding of a mean is open only when the mean is a tie
TieChoices(zip_code, store) ==
    LET vehicles == search_by_zip(zip_code, PyNone, store).ret.value.v
    IN IF vehicles # <<>> /\ IsTie(SumRates(vehicles), Len(vehicles))
       THEN BOOLEAN
       ELSE {FALSE}

\* the tool has run: the state keeps the call, its result and its call log
Ran(op, args, upstream, out) ==
    /\ request' = ToolCall(op, args, upstream)
    /\ response' = out.ret
    /\ calls' = out.calls
    /\ UNCHANGED <<table, env, script>>

\* the loader puts one more generated vehicle into the table
LoadVehicle ==
    /\ Idle
    /\ Len(table) < MaxVehicles
    /\ \E c \in 1..Len(CITIES), v \in 1..Len(VEHICLES), st \in 1..Len(STATUSES) :
        \E z \in 1..Len(CITIES[c].zip_codes), rate \in Rates(VEHICLES[v]) :
            table' = Append(table,
                            generate_vehicle_data(CITIES[c], CITIES[c].zip_codes[z], VEHICLES[v],
                                                  STATUSES[st], rate, Len(table) + 1))
    /\ UNCHANGED <<env, request, response, calls, script>>

SearchFleetByZip ==
    /\ Idle
    /\ \E zip_code \in ZipCodes, status \in StatusFilters, store \in StoreOutcomes :
        Ran("search_fleet_by_zip",
            << <<S("zip_code"), zip_code>>, <<S("status"), status>> >>,
            <<store>>,
            search_fleet_by_zip(zip_code, status, store))

SearchVehiclesGeneral ==
    /\ Idle
    /\ \E make \in Makes, model \in Models, category \in Categories, status \in StatusFilters :
        \E store \in StoreOutcomes :
            Ran("search_vehicles_general",
                << <<S("make"), make>>, <<S("model"), model>>,
                   <<S("category"), category>>, <<S("status"), status>> >>,
                <<store>>,
                search_vehicles_general(make, model, category, status, store))

GetFleetSummary ==
    /\ Idle
    /\ \E zip_code \in ZipCodes, store \in StoreOutcomes :
        \E tieUp \in TieChoices(zip_code, store) :
            Ran("get_fleet_summary",
                << <<S("zip_code"), zip_code>> >>,
                <<store>>,
                get_fleet_summary(zip_code, store, tieUp))

GetNationalHolidays ==
    /\ Idle
    /\ \E year \in Years, month \in Months, hol \in HolidayAnswers :
        Ran("get_national_holidays",
            << <<S("year"), year>>, <<S("month"), month>> >>,
            <<hol>>,
            get_national_holidays(year, month, ThisYear, hol))

GetLocalEvents ==
    /\ Idle
    /\ \E zip_code \in ZipCodes, start_date \in DateArguments, end_date \in DateArguments :
        \E size \in Sizes :
        \E ev \in Asked(get_local_events(zip_code, start_date, end_date, size,
                                         env.TICKETMASTER_API_KEY, Today, UrlError).calls,
                        "events", EventAnswers) :
            Ran("get_local_events",
                << <<S("zip_code"), zip_code>>, <<S("start_date"), start_date>>,
                   <<S("end_date"), end_date>>, <<S("size"), size>> >>,
                <<ev>>,
                get_local_events(zip_code, start_date, end_date, size,
                                 env.TICKETMASTER_API_KEY, Today, ev))

GetWeatherForecast ==
    /\ Idle
    /\ \E location \in Locations, days \in DaysArguments :
        \E geo \in Asked(get_weather_forecast(location, days, UrlError, UrlError).calls,
                         "geocode", GeoAnswers) :
        \E fc \in Asked(get_weather_forecast(location, days, geo, UrlError).calls,
                        "forecast", ForecastAnswers) :
            Ran("get_weather_forecast",
                << <<S("location"), location>>, <<S("days"), PyInt(days)>> >>,
                <<geo, fc>>,
                get_weather_forecast(location, days, geo, fc))

GetFlightTraffic ==
    /\ Idle
    /\ \E airport_code \in AirportCodes :
        \E fl \in Asked(get_flight_traffic(airport_code, env.AVIATIONSTACK_API_KEY,
                                           UrlError).calls,
                        "flights", FlightAnswers) :
            Ran("get_flight_traffic",
                << <<S("airport_code"), airport_code>> >>,
                <<fl>>,
                get_flight_traffic(airport_code, env.AVIATIONSTACK_API_KEY, fl))

Init ==
    /\ table = <<>>
    /\ env \in Environments
    /\ request = NoRequest
    /\ response = Return(PyNone)
    /\ calls = <<>>
    /\ NoScript

Next ==
    \/ LoadVehicle
    \/ SearchFleetByZip
    \/ SearchVehiclesGeneral
    \/ GetFleetSummary
    \/ GetNationalHolidays
    \/ GetLocalEvents
    \/ GetWeatherForecast
    \/ GetFlightTraffic
    \/ Finish

Spec == Init /\ [][Next]_vars

----------------------------------------------------------------------------
(* The cross-location scan over a loaded table *)

\* random.randint(15, 30): the loader's largest number of vehicles per ZIP code
NumVehicles == 30

\* the loader runs for at most MaxLoads ZIP codes in the model
MaxLoads == 4

\* what the general search passes to _search_vehicles
ScanMakes == {PyNone, PyStr(<<"t", "o", "y", "o", "t", "a">>), PyStr(<<"b", "m", "w">>)}
ScanModels == {PyNone, PyStr(<<>>), PyStr(<<"r", "a", "v", "4">>)}
ScanCategories ==
    {PyNone, PyStr(<<"S", "U", "V">>), PyStr(<<"S", "u", "v">>), PyStr(<<"s", "u", "v">>)}
ScanStatuses ==
    {PyNone, PyStr(StatusText.available), PyStr(TitleText(StatusText.available))}

\* The vehicles the loader generates for one ZIP code.  Of the random draws
\* the model takes the vehicle types and the statuses in turn, and for each
\* type one rate.
GeneratedBatch(city, zip_code, first_id) ==
    [i \in 1..NumVehicles |->
        LET vehicle == VEHICLES[(i % Len(VEHICLES)) + 1]
        IN generate_vehicle_data(city, zip_code, vehicle,
                                 STATUSES[(i % Len(STATUSES)) + 1],
                                 CHOOSE rate \in Rates(vehicle) : TRUE,
                                 first_id + i)]

\* the loader writes the vehicles of one ZIP code in a batch
LoadZip ==
    /\ Idle
    /\ Len(table) + NumVehicles <= MaxLoads * NumVehicles
    /\ \E c \in 1..Len(CITIES) :
        \E z \in 1..Len(CITIES[c].zip_codes) :
            table' = table \o GeneratedBatch(CITIES[c], CITIES[c].zip_codes[z], Len(table))
    /\ UNCHANGED <<env, request, response, calls, script>>

\* search_vehicles_general calls _search_vehicles
SearchVehicles ==
    /\ Idle
    /\ \E make \in ScanMakes, model \in ScanModels, category \in ScanCategories :
        \E status \in ScanStatuses, store \in StoreOutcomes :
            Ran("search_vehicles",
                << <<S("make"), make>>, <<S("model"), model>>,
                   <<S("category"), category>>, <<S("status"), status>> >>,
                <<store>>,
                search_vehicles(make, model, category, status, store))

InitScan ==
    /\ table = <<>>
    /\ env = Env(PyNone, PyNone)
    /\ request = NoRequest
    /\ response = Return(PyNone)
    /\ calls = <<>>
    /\ NoScript

NextScan == LoadZip \/ SearchVehicles \/ Finish

SpecScan == InitScan /\ [][NextScan]_vars

----------------------------------------------------------------------------
(* Properties of the remote handlers, under SpecLambda *)

OnWeather == request.op = "weather_lambda"
OnFlight == request.op = "flight_lambda"
Handled == OnWeather \/ OnFlight

\* the handler's result, taken apart
StatusCode == DictGet(response.value, S("statusCode"), Absent)
Body == DictGet(response.value, S("body"), Absent)
ErrorOf(body) == DictGet(json_loads(body), S("error"), Absent)

\* the identifier the gateway put into client_context.custom, if any
GatewayIdentifier ==
    LET cc == request.context.client_context
    IN IF cc.t = "obj" /\ cc.v.custom.t = "dict"
       THEN DictGet(cc.v.custom, S("bedrockAgentCoreToolName"), Absent)
       ELSE Absent

\* the identifier in the documented envelope field, if any
EnvelopeIdentifier ==
    IF request.context.executionMetadata.t = "dict"
    THEN DictGet(request.context.executionMetadata, S("toolIdentifier"), Absent)
    ELSE Absent

\* what the running handler's get_tool_name made of the context
Recovered ==
    IF OnWeather THEN weather_get_tool_name(request.context)
    ELSE flight_get_tool_name(request.context)

\* the one tool the running handler serves
Supported ==
    IF OnWeather THEN get_weather_forecast_name ELSE get_flight_traffic_name

\* the event is what a gateway can send: a JSON object
JsonEvent == request.event.t = "dict" /\ Serializable(request.event, FALSE)

ToolEntered == \E i \in 1..Len(calls) : calls[i].kind = "tool"
HttpSent == \E i \in 1..Len(calls) : calls[i].kind = "http"

\* C1: in both handlers, when the recovered tool name is not the handler's one
\* supported tool, the answer is statusCode 400 with a body that decodes to
\* {"error": "Unknown tool: <recovered name>"}, and the tool function is not
\* called.
C1_UnknownToolRejected ==
    (Handled /\ Serializable(request.event, FALSE)
       /\ ~Recovered.raised /\ Recovered.value # PyStr(Supported))
    => /\ ~response.raised
       /\ StatusCode = PyInt(400)
       /\ json_loads(Body)
            = PyDict(<< <<S("error"), PyStr(S("Unknown tool: ") \o Recovered.value.v)>> >>)
       /\ ~ToolEntered

\* the spec's own example: "X___bogus" is answered 400 "Unknown tool: bogus"
C1_Witness ==
    /\ OnWeather
    /\ GatewayIdentifier = PyStr(<<"WeatherTarget", "_", "_", "_", "bogus">>)
    /\ StatusCode = PyInt(400)
    /\ ErrorOf(Body) = PyStr(<<"Unknown tool: ", "bogus">>)
    /\ ~ToolEntered

\* a name that is not empty and neither starts nor ends with an underscore
WellFormed(name) == name # <<>> /\ name[1] # "_" /\ name[Len(name)] # "_"

\* C2: for every identifier "<TargetName>___<tool_name>" whose TargetName holds
\* no triple underscore, get_tool_name returns exactly <tool_name>, everything
\* after the separator, and the handler dispatches on that name.  Stated for
\* the well-formed names only.
C2_NameIsAllAfterSeparator ==
    (Handled /\ JsonEvent /\ GatewayIdentifier.t = "str")
    => LET id == GatewayIdentifier.v
       IN \A k \in 1..(Len(id) - 2) :
            (/\ SubSeq(id, k, k + 2) = Sep
             /\ ~Contains(SubSeq(id, 1, k - 1), Sep)
             /\ WellFormed(SubSeq(id, 1, k - 1))
             /\ WellFormed(SubSeq(id, k + 3, Len(id))))
            => LET tool_name == SubSeq(id, k + 3, Len(id))
               IN /\ Recovered = Return(PyStr(tool_name))
                  /\ tool_name # Supported
                     => /\ StatusCode = PyInt(400)
                        /\ ErrorOf(Body) = PyStr(S("Unknown tool: ") \o tool_name)

C4_MissingArgumentRejected ==
    (/\ Handled /\ JsonEvent
     /\ Recovered = Return(PyStr(Supported))
     /\ ~HasKey(request.event, IF OnWeather THEN S("location") ELSE S("airport_code")))
    => /\ ~response.raised
       /\ StatusCode = PyInt(400)
       /\ ErrorOf(Body).t = "str"
       /\ Contains(ErrorOf(Body).v,
                   IF OnWeather THEN S("location") ELSE S("airport_code"))
       /\ ~ToolEntered
       /\ ~HttpSent

C4_Witness ==
    /\ OnFlight
    /\ Recovered = Return(PyStr(get_flight_traffic_name))
    /\ request.event = PyDict(<<>>)
    /\ StatusCode = PyInt(400)
    /\ ErrorOf(Body) = PyStr(<<"airport_code", " parameter is required">>)

\* C5: lambda_handler never raises; an exception raised while it processes a
\* request (a days value int() rejects, an event without .get, a tool name that
\* is not text, an exception escaping the tool function) comes back as
\* statusCode 500 with body {"error": "Internal error: <message>"}.
C5_ExceptionsBecome500 ==
    Handled =>
      /\ ~response.raised
      /\ (/\ OnWeather /\ JsonEvent
          /\ Recovered = Return(PyStr(Supported))
          /\ Truthy(DictGet(request.event, S("location"), PyNone))
          /\ DictGet(request.event, S("days"), Absent) = PyStr(S("soon")))
         => /\ StatusCode = PyInt(500)
            /\ json_loads(Body)
                 = PyDict(<< <<S("error"),
                               PyStr(<<"Internal error: ",
                                       "invalid literal for int() with base 10: '",
                                       "soon", "'">>)>> >>)
            /\ ~ToolEntered
      /\ (/\ OnFlight /\ JsonEvent
          /\ Recovered = Return(PyStr(Supported))
          /\ DictGet(request.event, S("airport_code"), Absent) = PyInt(5))
         => /\ StatusCode = PyInt(500)
            /\ ToolEntered
      /\ (~Serializable(request.event, FALSE)
            \/ Recovered.raised
            \/ (Recovered = Return(PyStr(Supported)) /\ request.event.t # "dict"))
         => StatusCode = PyInt(500)
      /\ StatusCode = PyInt(500)
         => /\ Keys(json_loads(Body)) = {S("error")}
            /\ SubSeq(ErrorOf(Body).v, 1, 1) = S("Internal error: ")

C5_Witness ==
    /\ OnFlight /\ JsonEvent
    /\ Recovered = Return(PyStr(get_flight_traffic_name))
    /\ DictGet(request.event, S("airport_code"), Absent) = PyInt(5)
    /\ ToolEntered
    /\ ~response.raised
    /\ StatusCode = PyInt(500)
    /\ ErrorOf(Body) = PyStr(<<"Internal error: ", "object has no attribute 'upper'">>)

\* C6: on every return path of both handlers the result is a mapping with
\* exactly the keys statusCode and body, statusCode is 200, 400 or 500, and
\* body is a string holding JSON text, never a structured object.
C6_ResponseEnvelope ==
    Handled =>
      /\ ~response.raised
      /\ response.value.t = "dict"
      /\ Len(response.value.v) = 2
      /\ Keys(response.value) = {S("statusCode"), S("body")}
      /\ StatusCode \in {PyInt(200), PyInt(400), PyInt(500)}
      /\ Body.t = "str"
      /\ Encode(json_loads(Body)) = Body.v

C6_Witness ==
    /\ OnWeather
    /\ StatusCode = PyInt(200)
    /\ Body.t = "str"
    /\ DictGet(json_loads(Body), S("forecast_days"), Absent) = PyInt(2)
    /\ Len(DictGet(json_loads(Body), S("forecast"), Absent).v) = 2

----------------------------------------------------------------------------
(* Properties of the tools called in process *)

FleetTools == {"search_fleet_by_zip", "search_vehicles_general", "get_fleet_summary"}
HttpTools ==
    {"get_national_holidays", "get_local_events", "get_weather_forecast", "get_flight_traffic"}
Called == request.op \in FleetTools \cup HttpTools

\* the argument of the tool call by name
Arg(name) == DictGet(request.event, S(name), PyNone)

\* the calls the tool made to the store and to HTTP endpoints, in order
External == SelectSeq(calls, LAMBDA c : c.kind \in {"store", "http"})

\* an upstream call of the invocation failed: a call was made and what it was
\* answered is a network error, a timeout, a non-2xx or a store exception
UpstreamFailed ==
    /\ Called
    /\ \E i \in 1..Len(External) : request.upstream[i].kind # "ok"

\* the result of the tool as a structure: the fleet, holiday and event tools
\* return JSON text, the weather and flight tools a dict
Result ==
    IF response.value.t = "str" THEN json_loads(response.value) ELSE response.value

\* the key under which each HTTP tool returns its collection on an error
ErrorCollection ==
    [get_national_holidays |-> "holidays", get_local_events |-> "events",
     get_weather_forecast |-> "forecast", get_flight_traffic |-> "flights"]

\* C7 as stated: for every tool (fleet search by zip, general fleet search,
\* fleet summary, holidays, local events, weather, flight traffic) a failed
\* upstream call is caught in the tool and returned as a result that carries
\* an error string together with a result collection set to the empty list.
C7_FailureIsErrorWithEmptyCollection ==
    UpstreamFailed =>
        /\ ~response.raised
        /\ Result.t = "dict"
        /\ DictGet(Result, S("error"), Absent).t = "str"
        /\ \E k \in Keys(Result) : DictGet(Result, k, Absent) = PyList(<<>>)

\* C7, amended: no tool re-raises a failed upstream call.  The four HTTP
\* tools return an error string with their collection (holidays, events,
\* forecast, flights) empty.  The fleet tools do not report the failure: the
\* two searches return a message with vehicles empty and no error key, the
\* summary returns only the error "No vehicles found for <zip>".
C7_FailureIsCaught ==
    UpstreamFailed =>
        /\ ~response.raised
        /\ Result.t = "dict"
        /\ request.op \in HttpTools =>
            /\ DictGet(Result, S("error"), Absent).t = "str"
            /\ DictGet(Result, S(ErrorCollection[request.op]), Absent) = PyList(<<>>)
        /\ request.op \in {"search_fleet_by_zip", "search_vehicles_general"} =>
            /\ Keys(Result) = {S("message"), S("vehicles")}
            /\ DictGet(Result, S("vehicles"), Absent) = PyList(<<>>)
        /\ request.op = "get_fleet_summary" =>
            Result = PyDict(<< <<S("error"), PyStr(NoVehiclesFor(Arg("zip_code")))>> >>)

\* the scan of a general search fails while the table holds vehicles, and
\* the tool answers with a message and no vehicles
C7_Witness ==
    /\ request.op = "search_vehicles_general"
    /\ UpstreamFailed
    /\ table # <<>>
    /\ ~response.raised
    /\ HasKey(Result, S("message"))

\* the vehicles the index holds for the zip code and status of the call
StoredMatches == IndexQuery(table, Arg("zip_code"), Arg("status"))

\* C8: for every zip code and optional status for which the store returns no
\* matching vehicle, search_fleet_by_zip returns the JSON encoding of
\* {message, vehicles: []} without zip_code, location or count, and does not
\* raise.
C8_NoMatchIsMessage ==
    (/\ request.op = "search_fleet_by_zip"
     /\ request.upstream[1].kind = "ok"
     /\ StoredMatches = <<>>) =>
        /\ ~response.raised
        /\ response.value.t = "str"
        /\ Keys(Result) = {S("message"), S("vehicles")}
        /\ DictGet(Result, S("vehicles"), Absent) = PyList(<<>>)
        /\ DictGet(Result, S("message"), Absent)
            = PyStr(S("No vehicles found for ") \o Arg("zip_code").v)

\* the zip code has vehicles, none of them with the status asked for
C8_Witness ==
    /\ request.op = "search_fleet_by_zip"
    /\ request.upstream[1].kind = "ok"
    /\ StoredMatches = <<>>
    /\ IndexQuery(table, Arg("zip_code"), PyNone) # <<>>

\* the store raised during the call
StoreFailed ==
    /\ request.op \in FleetTools
    /\ request.upstream[1].kind # "ok"

\* C9: _search_by_zip and _search_vehicles turn an exception of the store
\* query or scan into an empty list and do not propagate it, so the tool
\* returns what it returns when no record matches.
C9_StoreFailureIsEmptyList ==
    StoreFailed =>
        LET adapter ==
                IF request.op = "search_vehicles_general"
                THEN search_vehicles(Arg("make"), Arg("model"), Arg("category"),
                                     Arg("status"), request.upstream[1])
                ELSE search_by_zip(Arg("zip_code"), Arg("status"), request.upstream[1])
        IN /\ ~adapter.ret.raised
           /\ adapter.ret.value = PyList(<<>>)
           /\ Len(adapter.calls) = 1
           /\ ~response.raised
           /\ request.op = "search_fleet_by_zip" =>
                response = json_dumps(NoVehiclesResult(Arg("zip_code")), FALSE)
           /\ request.op = "search_vehicles_general" =>
                DictGet(Result, S("vehicles"), Absent) = PyList(<<>>)

\* the store raised although the table holds a vehicle the query would match
C9_Witness ==
    /\ StoreFailed
    /\ request.op = "search_fleet_by_zip"
    /\ StoredMatches # <<>>

\* C10: for every non-empty list of vehicles the store returns for a zip
\* code, the summary has available + rented + maintenance = total_vehicles,
\* and total_vehicles is the number of vehicles returned.
C10_StatusCountsAddUp ==
    (/\ request.op = "get_fleet_summary"
     /\ request.upstream[1].kind = "ok"
     /\ StoredMatches # <<>>) =>
        /\ ~response.raised
        /\ DictGet(Result, S("total_vehicles"), Absent) = PyInt(Len(StoredMatches))
        /\ DictGet(Result, S("available"), Absent).v
            + DictGet(Result, S("rented"), Absent).v
            + DictGet(Result, S("maintenance"), Absent).v
            = DictGet(Result, S("total_vehicles"), Absent).v

\* a summary of two vehicles, one of them in maintenance
C10_Witness ==
    /\ request.op = "get_fleet_summary"
    /\ request.upstream[1].kind = "ok"
    /\ Len(StoredMatches) = 2
    /\ DictGet(Result, S("maintenance"), Absent) = PyInt(1)
    /\ DictGet(Result, S("total_vehicles"), Absent) = PyInt(2)

\* a summary of the vehicles the store holds for the zip code was returned
Summarised ==
    /\ request.op = "get_fleet_summary"
    /\ request.upstream[1].kind = "ok"
    /\ StoredMatches # <<>>

\* the absolute value of an integer
Abs(x) == IF x < 0 THEN 0 - x ELSE x

\* C11: for every non-empty list of matched vehicles, avg_daily_rate is the
\* arithmetic mean of their daily_rate values rounded to 2 decimal places:
\* a number of hundredths at most half a hundredth away from the exact mean,
\* the rates being exact cents.
C11_AvgIsRoundedMean ==
    Summarised =>
        LET avg == DictGet(Result, S("avg_daily_rate"), Absent)
            total == SumRates(StoredMatches)
            n == Len(StoredMatches)
        IN /\ avg.t = "float"
           /\ 2 * Abs(avg.v * n - total) <= n

\* two vehicles whose mean lies between two hundredths, rounded upwards
C11_Witness ==
    /\ Summarised
    /\ Len(StoredMatches) = 2
    /\ SumRates(StoredMatches) % 2 = 1
    /\ 2 * DictGet(Result, S("avg_daily_rate"), Absent).v = SumRates(StoredMatches) + 1

----------------------------------------------------------------------------
(* Properties of the cross-location scan, under SpecScan *)

\* _search_vehicles was called and the store answered the scan
Scanned ==
    /\ request.op = "search_vehicles"
    /\ request.upstream[1].kind = "ok"

\* the records the bounded scan examines, and the records it returned
Examined == SubSeq(table, 1, min(Len(table), ScanLimit))
Returned == response.value.v

\* what the same call returns with one argument replaced
Rescanned(name, value) ==
    search_vehicles(IF name = "make" THEN value ELSE Arg("make"),
                    IF name = "model" THEN value ELSE Arg("model"),
                    IF name = "category" THEN value ELSE Arg("category"),
                    IF name = "status" THEN value ELSE Arg("status"),
                    request.upstream[1]).ret.value.v

\* C12: the category filter is case-insensitive: whatever the letter case of
\* the category passed, every record returned has the lowercase name as its
\* category, the call returns what it returns for the lowercase name, and
\* with no other filter these are all examined records of that category.
C12_CategoryAnyCase ==
    (Scanned /\ Truthy(Arg("category"))) =>
        LET lowercase == PyStr(LowerText(Arg("category").v))
        IN /\ \A i \in 1..Len(Returned) : Field(Returned[i], S("category")) = lowercase
           /\ Returned = Rescanned("category", lowercase)
           /\ (~Truthy(Arg("make")) /\ ~Truthy(Arg("model")) /\ ~Truthy(Arg("status"))) =>
                Returned = SelectSeq(Examined, LAMBDA it : Field(it, S("category")) = lowercase)

\* "SUV" finds the suv records of a table that holds other categories too
C12_Witness ==
    /\ Scanned
    /\ Arg("category") = PyStr(<<"S", "U", "V">>)
    /\ Returned # <<>>
    /\ Len(Returned) < Len(Examined)

FilterNames == {"make", "model", "category", "status"}

\* what the call returns with the named filter alone
Alone(name) ==
    search_vehicles(IF name = "make" THEN Arg("make") ELSE PyNone,
                    IF name = "model" THEN Arg("model") ELSE PyNone,
                    IF name = "category" THEN Arg("category") ELSE PyNone,
                    IF name = "status" THEN Arg("status") ELSE PyNone,
                    request.upstream[1]).ret.value.v

\* the vehicle ids of a list of records
Ids(seq) == {Field(seq[i], S("vehicle_id")) : i \in 1..Len(seq)}

\* C13: among the records the bounded scan examines, _search_vehicles
\* returns exactly those that every provided filter selects on its own: the
\* filters are combined with AND, a filter that is None or empty imposes
\* nothing, and with no filter every examined record is returned.
C13_FiltersAreConjoined ==
    Scanned =>
        /\ LET byMake == Ids(Alone("make"))
               byModel == Ids(Alone("model"))
               byCategory == Ids(Alone("category"))
               byStatus == Ids(Alone("status"))
           IN Returned = SelectSeq(Examined, LAMBDA it :
                            /\ Truthy(Arg("make")) => Field(it, S("vehicle_id")) \in byMake
                            /\ Truthy(Arg("model")) => Field(it, S("vehicle_id")) \in byModel
                            /\ Truthy(Arg("category")) =>
                                    Field(it, S("vehicle_id")) \in byCategory
                            /\ Truthy(Arg("status")) => Field(it, S("vehicle_id")) \in byStatus)
        /\ \A name \in FilterNames : ~Truthy(Arg(name)) => Alone(name) = Examined
        /\ (\A name \in FilterNames : ~Truthy(Arg(name))) => Returned = Examined

\* make and status are given, the model is the empty string; each of the two
\* filters alone selects more than both together
C13_Witness ==
    /\ Scanned
    /\ Truthy(Arg("make")) /\ Truthy(Arg("status"))
    /\ Arg("model") = PyStr(<<>>) /\ Arg("category") = PyNone
    /\ Returned # <<>>
    /\ Len(Returned) < Len(Alone("make"))
    /\ Len(Returned) < Len(Alone("status"))

\* C14: the status filter matches whatever the letter case: filtering with
\* any casing of a status returns the records that filtering with the stored
\* lowercase value returns.
C14_StatusAnyCase ==
    (Scanned /\ Truthy(Arg("status"))) =>
        Returned = Rescanned("status", PyStr(LowerText(Arg("status").v)))

\* a stored text contains the query text when letter case is disregarded
ContainsAnyCase(stored, query) == Contains(LowerText(stored.v), LowerText(query.v))

\* C15: the make and model filters match by substring containment whatever
\* the letter case: every examined record whose stored make (model) contains
\* the query up to letter case, and that passes the other filters, is
\* returned.
C15_MakeModelAnyCase ==
    Scanned =>
        LET returned == Ids(Returned)
            others(name) == Ids(Rescanned(name, PyNone))
            byOthersMake == others("make")
            byOthersModel == others("model")
        IN \A i \in 1..Len(Examined) :
            LET it == Examined[i]
                id == Field(it, S("vehicle_id"))
            IN /\ (/\ Truthy(Arg("make"))
                   /\ ContainsAnyCase(Field(it, S("make")), Arg("make"))
                   /\ id \in byOthersMake) => id \in returned
               /\ (/\ Truthy(Arg("model"))
                   /\ ContainsAnyCase(Field(it, S("model")), Arg("model"))
                   /\ id \in byOthersModel) => id \in returned

\* C16: for every table and every combination of filters _search_vehicles
\* returns at most 100 records and performs one bounded scan without
\* continuation: only records among the first 100 of the table are returned.
C16_ScanIsBounded ==
    request.op = "search_vehicles" =>
        /\ ~response.raised
        /\ Len(Returned) <= 100
        /\ Len(calls) = 1
        /\ CountCalls(calls, "store", "scan") = 1
        /\ Ids(Returned) \subseteq Ids(Examined)

\* the table holds more than 100 vehicles, and one beyond the hundredth
\* passes the filters of a call that returned some of the first hundred
C16_Witness ==
    /\ Scanned
    /\ Len(table) > 100
    /\ Returned # <<>>
    /\ Len(Returned) < 100
    /\ ScanFilter(table[Len(table)], Arg("make"), Arg("model"), Arg("category"),
                  Arg("status"))

----------------------------------------------------------------------------
(* Further properties of the tools called in process, under Spec *)

\* the general search returned vehicles
Grouped ==
    /\ request.op = "search_vehicles_general"
    /\ ~response.raised
    /\ HasKey(Result, S("by_location"))

\* the lists of a by_location dict, one after the other
RECURSIVE Flattened(_)
Flattened(pairs) ==
    IF pairs = <<>> THEN <<>> ELSE pairs[1][2].v \o Flattened(Tail(pairs))

\* C17: for every non-empty scan result of search_vehicles_general, the
\* lists of by_location, concatenated, hold the same vehicles as many times
\* as the vehicles list, every vehicle is listed under the key that is its
\* location, locations_found is the number of keys of by_location and count
\* is the length of vehicles.
C17_GroupingPartitions ==
    Grouped =>
        LET vehicles == DictGet(Result, S("vehicles"), Absent).v
            by_location == DictGet(Result, S("by_location"), Absent).v
            flat == Flattened(by_location)
        IN /\ vehicles # <<>>
           /\ Len(flat) = Len(vehicles)
           /\ \A i \in 1..Len(vehicles) :
                Occurrences(flat, vehicles[i]) = Occurrences(vehicles, vehicles[i])
           /\ \A k \in 1..Len(by_location) :
                /\ \A i \in 1..Len(by_location[k][2].v) :
                    Field(by_location[k][2].v[i], S("location")) = PyStr(by_location[k][1])
                /\ \A j \in 1..Len(by_location) : by_location[j][1] = by_location[k][1] => j = k
           /\ DictGet(Result, S("locations_found"), Absent) = PyInt(Len(by_location))
           /\ DictGet(Result, S("count"), Absent) = PyInt(Len(vehicles))

\* two vehicles of one location are returned, grouped under one key
C17_Witness ==
    /\ Grouped
    /\ DictGet(Result, S("count"), Absent) = PyInt(2)
    /\ DictGet(Result, S("locations_found"), Absent) = PyInt(1)
    /\ Len(Flattened(DictGet(Result, S("by_location"), Absent).v)) = 2

\* the holiday service answered a list of holidays, each with the date, name
\* and countryCode of its schema, and a month was asked for
MonthAsked ==
    /\ request.op = "get_national_holidays"
    /\ Arg("month") # PyNone
    /\ request.upstream[1].kind = "ok"
    /\ request.upstream[1].data.t = "list"
    /\ \A i \in 1..Len(request.upstream[1].data.v) :
        \A k \in {"date", "name", "countryCode"} :
            HasKey(request.upstream[1].data.v[i], S(k))

\* the two digits of the month in a YYYY-MM-DD text, as a number
MonthDigits(date) == 10 * DigitVal(date.v[6]) + DigitVal(date.v[7])

\* C18: for every year, every month in 1..12 and every holiday list of the
\* service, get_national_holidays returns exactly the upstream holidays whose
\* date falls in that month, in order, and count is their number.
C18_MonthFilterExact ==
    (MonthAsked /\ Arg("month").v \in 1..12) =>
        LET upstream == request.upstream[1].data.v
            expected == SelectSeq(upstream, LAMBDA h :
                            MonthDigits(Field(h, S("date"))) = Arg("month").v)
            holidays == DictGet(Result, S("holidays"), Absent)
        IN /\ ~response.raised
           /\ ~HasKey(Result, S("error"))
           /\ holidays.t = "list"
           /\ Len(holidays.v) = Len(expected)
           /\ \A i \in 1..Len(expected) :
                /\ Field(holidays.v[i], S("date")) = Field(expected[i], S("date"))
                /\ Field(holidays.v[i], S("name")) = Field(expected[i], S("name"))
           /\ DictGet(Result, S("count"), Absent) = PyInt(Len(holidays.v))
           /\ DictGet(Result, S("month"), Absent) = Arg("month")

\* July is asked of a list that holds a July and a December holiday
C18_Witness ==
    /\ MonthAsked
    /\ Arg("month") = PyInt(7)
    /\ Len(request.upstream[1].data.v) = 2
    /\ DictGet(Result, S("count"), Absent) = PyInt(1)
    /\ Field(DictGet(Result, S("holidays"), Absent).v[1], S("date")) = PyStr(July4)

\* the positions in the call log of the HTTP requests to an endpoint
RequestsTo(target) ==
    {i \in 1..Len(calls) : calls[i].kind = "http" /\ calls[i].target = target}

\* what the geocode service answered
Geocoded == request.upstream[1]

\* C19: when the geocode service returns no results, get_weather_forecast
\* returns {error, forecast: []} without raising and without a forecast
\* request; a forecast request is made only after a geocode request that
\* returned at least one result, with the coordinates of the first result.
C19_ForecastFollowsGeocode ==
    request.op = "get_weather_forecast" =>
        /\ (/\ RequestsTo("geocode") # {}
            /\ Geocoded.kind = "ok"
            /\ ~Truthy(DictGet(Geocoded.data, S("results"), PyNone))) =>
                /\ ~response.raised
                /\ Keys(Result) = {S("error"), S("forecast")}
                /\ DictGet(Result, S("error"), Absent).t = "str"
                /\ DictGet(Result, S("forecast"), Absent) = PyList(<<>>)
                /\ RequestsTo("forecast") = {}
        /\ \A f \in RequestsTo("forecast") :
                /\ \E g \in RequestsTo("geocode") : g < f
                /\ Geocoded.kind = "ok"
                /\ LET results == DictGet(Geocoded.data, S("results"), PyNone)
                   IN /\ results.t = "list"
                      /\ Len(results.v) >= 1
                      /\ DictGet(calls[f].arg, S("latitude"), Absent)
                            = Field(results.v[1], S("latitude"))
                      /\ DictGet(calls[f].arg, S("longitude"), Absent)
                            = Field(results.v[1], S("longitude"))

\* the geocode service answered an empty result list
C19_Witness ==
    /\ request.op = "get_weather_forecast"
    /\ RequestsTo("geocode") # {}
    /\ Geocoded.kind = "ok"
    /\ DictGet(Geocoded.data, S("results"), PyNone) = PyList(<<>>)
    /\ HasKey(Result, S("error"))

----------------------------------------------------------------------------
(* Further properties of the remote handlers, under SpecLambda *)

\* the days the weather handler passes to get_weather_forecast: 7 when the
\* event has none, else the integer the event's value stands for
DaysPassed ==
    LET days == DictGet(request.event, S("days"), PyNone)
    IN IF days = PyNone THEN 7
       ELSE IF days.t = "int" THEN days.v
       ELSE IntValue(days.v)

\* C20: for every integer days passed to get_weather_forecast (7 when the
\* remote event omits it) the number of forecast days requested from the
\* forecast service is min(days, 16), never more than 16, and the result's
\* forecast_days is the length of the returned forecast list.
C20_ForecastDaysCapped ==
    (OnWeather /\ ToolEntered) =>
        /\ \A f \in RequestsTo("forecast") :
            LET asked == DictGet(calls[f].arg, S("forecast_days"), Absent)
            IN /\ asked = PyInt(IF DaysPassed < 16 THEN DaysPassed ELSE 16)
               /\ asked.v <= 16
        /\ (StatusCode = PyInt(200) /\ ErrorOf(Body) = Absent) =>
            LET result == json_loads(Body)
            IN /\ DictGet(result, S("forecast"), Absent).t = "list"
               /\ DictGet(result, S("forecast_days"), Absent)
                    = PyInt(Len(DictGet(result, S("forecast"), Absent).v))

\* 20 days are asked for, 16 are requested, and the service returns two
C20_Witness ==
    /\ OnWeather
    /\ ToolEntered
    /\ DictGet(request.event, S("days"), PyNone) = PyInt(20)
    /\ \E f \in RequestsTo("forecast") :
        DictGet(calls[f].arg, S("forecast_days"), Absent) = PyInt(16)
    /\ StatusCode = PyInt(200)
    /\ DictGet(json_loads(Body), S("forecast_days"), Absent) = PyInt(2)

----------------------------------------------------------------------------
(* Properties of the key check and the event tool, under Spec *)

\* the key the running tool needs is not configured
KeyMissing ==
    \/ /\ request.op = "get_local_events"
       /\ env.TICKETMASTER_API_KEY \in {PyNone, PyStr(<<>>)}
    \/ /\ request.op = "get_flight_traffic"
       /\ env.AVIATIONSTACK_API_KEY
            \in {PyNone, PyStr(<<>>), PyStr(S("your_aviationstack_api_key_here"))}

\* the environment setting each of the two tools reads its key from
KeySetting ==
    [get_local_events |-> "TICKETMASTER_API_KEY", get_flight_traffic |-> "AVIATIONSTACK_API_KEY"]

\* C21: when the API key is not configured (unset or empty for
\* get_local_events; unset, empty or the placeholder for get_flight_traffic)
\* the tool returns an error result that names the environment setting and
\* holds an empty collection, raises nothing and sends no HTTP request.
C21_MissingKeyIsReported ==
    KeyMissing =>
        /\ ~response.raised
        /\ Result.t = "dict"
        /\ DictGet(Result, S("error"), Absent).t = "str"
        /\ Contains(DictGet(Result, S("error"), Absent).v, S(KeySetting[request.op]))
        /\ DictGet(Result, S(ErrorCollection[request.op]), Absent) = PyList(<<>>)
        /\ \A i \in 1..Len(calls) : calls[i].kind # "http"

\* the flight tool runs with the placeholder in place of its key
C21_Witness ==
    /\ request.op = "get_flight_traffic"
    /\ env.AVIATIONSTACK_API_KEY = PyStr(S("your_aviationstack_api_key_here"))
    /\ HasKey(Result, S("error"))
    /\ calls # <<>>

\* the day of a date-time text sent to the event service
DayOf(text) == DigitsValue(SelectSeq(text.v, IsDigit), 0)

\* C22: when end_date is omitted, the end of the range get_local_events
\* queries is 30 days after its start, the start being the start_date
\* passed or the current time; the end never precedes the start.
C22_DefaultEndFollowsStart ==
    (request.op = "get_local_events" /\ Arg("end_date") = PyNone) =>
        \A r \in RequestsTo("events") :
            LET start == DayOf(DictGet(calls[r].arg, S("startDateTime"), Absent))
                end == DayOf(DictGet(calls[r].arg, S("endDateTime"), Absent))
            IN /\ start = (IF Arg("start_date") = PyNone THEN Today
                           ELSE DigitsValue(Arg("start_date").v, 0))
               /\ end = start + 30
               /\ end >= start

\* the events of the event service's answer, when it holds any
UpstreamEvents ==
    LET data == request.upstream[1].data
        embedded == DictGet(data, S("_embedded"), PyDict(<<>>))
    IN IF /\ request.upstream[1].kind = "ok"
          /\ data.t = "dict"
          /\ embedded.t = "dict"
          /\ DictGet(embedded, S("events"), PyNone).t = "list"
       THEN DictGet(embedded, S("events"), PyNone).v
       ELSE <<>>

\* the keys of a normalised event and of its venue
EventKeys ==
    {S(k) : k \in {"name", "date", "time", "type", "genre", "venue", "url", "priceRanges"}}
VenueKeys == {S(k) : k \in {"name", "city", "state", "address"}}

\* C23: for every answer of the event service that contains events, the
\* result holds one event for each, every one with the keys name, date, time,
\* type, genre, venue, url, priceRanges and a venue with the keys name, city,
\* state, address; what is missing upstream (a venue list, the entries of
\* the classifications list) is filled in, and the call is not an error.
C23_EventsNormalised ==
    (/\ request.op = "get_local_events"
     /\ RequestsTo("events") # {}
     /\ UpstreamEvents # <<>>
     /\ \A i \in 1..Len(UpstreamEvents) : UpstreamEvents[i].t = "dict") =>
        /\ ~response.raised
        /\ ~HasKey(Result, S("error"))
        /\ LET events == DictGet(Result, S("events"), PyList(<<>>)).v
           IN /\ Len(events) = Len(UpstreamEvents)
              /\ \A i \in 1..Len(events) :
                    /\ Keys(events[i]) = EventKeys
                    /\ Field(events[i], S("venue")).t = "dict"
                    /\ Keys(Field(events[i], S("venue"))) = VenueKeys

----------------------------------------------------------------------------
(* The calls one invocation makes, under Spec *)

\* C24: within one tool invocation every external endpoint is called at most
\* once: each fleet tool makes one store query or scan, the holiday, event
\* and flight tools at most one HTTP request, the weather tool at most two
\* (the geocode request, then the forecast request); no call follows a
\* failed call, and the tool returns.
C24_OneRoundTrip ==
    Called =>
        /\ \A i, j \in 1..Len(External) :
                External[i].target = External[j].target => i = j
        /\ request.op \in FleetTools =>
                /\ Len(External) = 1
                /\ External[1].kind = "store"
                /\ External[1].target
                        = (IF request.op = "search_vehicles_general" THEN "scan" ELSE "query")
        /\ request.op \in HttpTools \ {"get_weather_forecast"} =>
                /\ Len(External) <= 1
                /\ \A i \in 1..Len(External) : External[i].kind = "http"
        /\ request.op = "get_weather_forecast" =>
                /\ Len(External) <= 2
                /\ \A i \in 1..Len(External) :
                        /\ External[i].kind = "http"
                        /\ External[i].target = (IF i = 1 THEN "geocode" ELSE "forecast")
        /\ \A i \in 1..Len(External) :
                request.upstream[i].kind # "ok" => i = Len(External)
        /\ ~response.raised

\* the weather tool was answered by the geocode service and the forecast
\* request failed: two requests, and an error result
C24_Witness ==
    /\ request.op = "get_weather_forecast"
    /\ Len(External) = 2
    /\ request.upstream[1].kind = "ok"
    /\ request.upstream[2].kind # "ok"
    /\ HasKey(Result, S("error"))

----------------------------------------------------------------------------
(* The records of the seed loader, under Spec *)

\* the cities whose zip_codes list holds the ZIP code of a record
Owners(item) ==
    {c \in 1..Len(CITIES) :
        \E z \in 1..Len(CITIES[c].zip_codes) :
            Field(item, S("zip_code")) = PyStr(S(CITIES[c].zip_codes[z]))}

\* C25: every record the seed loader produces has a status among available,
\* rented and maintenance; rental_start and rental_end are both set when the
\* status is rented and both null otherwise; location is the "City, ST" text
\* of the one city that owns the record's zip_code, so that the records of
\* one zip_code carry the same location.
C25_SeedRecords ==
    \A i \in 1..Len(table) :
        LET item == table[i]
            rented == Field(item, S("status")) = PyStr(StatusText.rented)
        IN /\ \E st \in {"available", "rented", "maintenance"} :
                Field(item, S("status")) = PyStr(StatusText[st])
           /\ rented => /\ Field(item, S("rental_start")) \notin {PyNone, Absent}
                         /\ Field(item, S("rental_end")) \notin {PyNone, Absent}
           /\ ~rented => /\ Field(item, S("rental_start")) = PyNone
                          /\ Field(item, S("rental_end")) = PyNone
           /\ Cardinality(Owners(item)) = 1
           /\ \A c \in Owners(item) :
                Field(item, S("location")) = PyStr(<<CITIES[c].name, ", ", CITIES[c].state>>)
           /\ \A j \in 1..Len(table) :
                Field(table[j], S("zip_code")) = Field(item, S("zip_code")) =>
                    Field(table[j], S("location")) = Field(item, S("location"))

\* the loader has produced a rented and an available vehicle for one ZIP code
C25_Witness ==
    /\ Len(table) = 2
    /\ Field(table[1], S("zip_code")) = Field(table[2], S("zip_code"))
    /\ Field(table[1], S("status")) = PyStr(StatusText.rented)
    /\ Field(table[2], S("status")) = PyStr(StatusText.available)
    /\ Field(table[1], S("location")) = PyStr(<<"Los Angeles", ", ", "CA">>)

----------------------------------------------------------------------------
(* deploy_agentcore_runtime.py: the launch and the wait for the deployment *)

\* variant: only READY ends the wait
end_status_ready == {"READY"}

\* end_status of main
end_status == {"READY", "CREATE_FAILED", "DELETE_FAILED", "UPDATE_FAILED"}

\* the statuses of an endpoint the service is still working on
InProgress == {"CREATING", "UPDATING", "DELETING"}

\* what the service can make of an endpoint it is working on
Outcomes(s) ==
    CASE s = "CREATING" -> {"READY", "CREATE_FAILED"}
      [] s = "UPDATING" -> {"READY", "UPDATE_FAILED"}
      [] s = "DELETING" -> {"DELETE_FAILED"}
      [] OTHER -> {}

\* the polls are counted up to MaxPolls; the loop itself has no limit
MaxPolls == 3

\* time.sleep(10)
RuntimePollInterval == 10

\* a count that stops growing at its cap
Saturating(n, cap) == IF n < cap THEN n ELSE cap

ArnParameter == "/hertz/agentcore/strands_runtime_arn"
UrlParameter == "/hertz/agentcore/strands_runtime_url"

\* put_ssm_parameter: the parameter is stored, unless the store raises, which
\* the function swallows
put_ssm_parameter(name, stored) == IF stored THEN ssm \cup {name} ELSE ssm

Reported(what, code) == [reported |-> what, code |-> code]

\* `except Exception` of main: the error is printed and main returns 1
DeployExcept ==
    /\ pc' = "exited"
    /\ outcome' = Reported("error", 1)

\* launch, the storing of the ARN and the first status call
RuntimeLaunch ==
    /\ pc = "launch"
    /\ \/ \* launch raises
          /\ DeployExcept
          /\ UNCHANGED <<cloud, deploy_status, polls, ssm>>
       \/ \E first \in InProgress \cup {"READY"}, stored \in BOOLEAN :
            /\ cloud' = first
            /\ ssm' = put_ssm_parameter(ArnParameter, stored)
            /\ polls' = 1
            /\ \/ /\ deploy_status' = first
                  /\ pc' = "waiting"
                  /\ UNCHANGED outcome
               \/ \* status() raises, or its answer holds no status
                  /\ DeployExcept
                  /\ UNCHANGED deploy_status
    /\ UNCHANGED <<table, env, request, response, calls, elapsed_time>>

\* one turn of the while loop: the sleep and the next status call
RuntimePoll ==
    /\ pc = "waiting"
    /\ deploy_status \notin end_status
    /\ elapsed_time' = Saturating(elapsed_time + RuntimePollInterval,
                                  MaxPolls * RuntimePollInterval)
    /\ polls' = Saturating(polls + 1, MaxPolls)
    /\ \/ /\ deploy_status' = cloud
          /\ UNCHANGED <<pc, outcome>>
       \/ /\ DeployExcept
          /\ UNCHANGED deploy_status
    /\ UNCHANGED <<table, env, request, response, calls, cloud, ssm>>

\* what follows the loop: the report, and for READY the endpoint URL
RuntimeFinish ==
    /\ pc = "waiting"
    /\ deploy_status \in end_status
    /\ pc' = "exited"
    /\ IF deploy_status = "READY"
       THEN \E url \in BOOLEAN, stored \in BOOLEAN, yaml \in BOOLEAN :
                /\ ssm' = IF url THEN put_ssm_parameter(UrlParameter, stored) ELSE ssm
                /\ outcome' = Reported("success", IF yaml THEN 0 ELSE 1)
       ELSE /\ ssm' = ssm
            /\ outcome' = Reported("failed", 0)
    /\ UNCHANGED <<table, env, request, response, calls, cloud, deploy_status, polls,
                   elapsed_time>>

\* the service finishes its work on the endpoint, one way or the other
RuntimeProgress ==
    /\ pc = "waiting"
    /\ cloud \in InProgress
    /\ cloud' \in Outcomes(cloud)
    /\ UNCHANGED <<table, env, request, response, calls, pc, deploy_status, polls,
                   elapsed_time, ssm, outcome>>

InitRuntimeDeploy ==
    /\ table = <<>>
    /\ env = Env(PyNone, PyNone)
    /\ request = NoRequest
    /\ response = Return(PyNone)
    /\ calls = <<>>
    /\ pc = "launch"
    /\ cloud = "none"
    /\ deploy_status = "none"
    /\ polls = 0
    /\ elapsed_time = 0
    /\ ssm = {}
    /\ outcome = Reported("none", 0)

NextRuntimeDeploy == RuntimeLaunch \/ RuntimePoll \/ RuntimeFinish \/ RuntimeProgress

\* the script is a running process: a step it can take, it takes
SpecRuntimeDeploy ==
    /\ InitRuntimeDeploy
    /\ [][NextRuntimeDeploy]_vars
    /\ WF_vars(RuntimeLaunch)
    /\ WF_vars(RuntimePoll)
    /\ WF_vars(RuntimeFinish)

----------------------------------------------------------------------------
(* Properties of the runtime deployment script, under SpecRuntimeDeploy *)

\* the statuses at which the wait is to end
TerminalStatuses == {"READY", "CREATE_FAILED", "DELETE_FAILED", "UPDATE_FAILED"}

\* C26: the wait loop of the runtime deployment script sleeps 10 seconds and
\* polls again for as long as the status is none of READY, CREATE_FAILED,
\* DELETE_FAILED, UPDATE_FAILED, whatever the number of polls made; it is
\* left for the report exactly at one of these statuses; once the deployment
\* is at one of them the script terminates; success is reported, and the
\* endpoint URL stored, only at READY.
C26_PollsUntilTerminal ==
    /\ [][(pc = "waiting" /\ deploy_status \notin TerminalStatuses /\ pc' # pc) =>
            outcome'.reported = "error"]_vars
    /\ [][(pc = "waiting" /\ deploy_status \notin TerminalStatuses
                          /\ <<polls, elapsed_time, deploy_status, pc>>
                                # <<polls', elapsed_time', deploy_status', pc'>>) =>
            /\ elapsed_time' = Saturating(elapsed_time + 10, MaxPolls * 10)
            /\ polls' = Saturating(polls + 1, MaxPolls)]_vars
    /\ [][(pc = "waiting" /\ deploy_status \in TerminalStatuses) =>
            /\ polls' = polls
            /\ elapsed_time' = elapsed_time
            /\ pc' = "exited"
            /\ outcome'.reported \in {"success", "failed"}]_vars
    /\ []((pc = "waiting" /\ deploy_status \notin TerminalStatuses) => ENABLED RuntimePoll)
    /\ [](outcome.reported = "success" => deploy_status = "READY")
    /\ [](UrlParameter \in ssm => outcome.reported = "success" /\ deploy_status = "READY")
    /\ (cloud \in TerminalStatuses) ~> (pc = "exited")

\* the deployment got READY after more polls than are counted, and the
\* script reported success and stored the endpoint URL
C26_Witness ==
    /\ pc = "exited"
    /\ outcome = Reported("success", 0)
    /\ elapsed_time >= 30
    /\ UrlParameter \in ssm

----------------------------------------------------------------------------
(* The status code and the tool outcome, under SpecLambda *)

\* what the tool function of the running handler does with the request's
\* arguments and the answers of its endpoints
ToolOutcome ==
    IF OnWeather
    THEN get_weather_forecast(DictGet(request.event, S("location"), PyNone), DaysPassed,
                              request.upstream[1], request.upstream[2]).ret
    ELSE get_flight_traffic(DictGet(request.event, S("airport_code"), PyNone),
                            env.AVIATIONSTACK_API_KEY, request.upstream[1]).ret

\* the argument the running handler requires
RequiredArgument ==
    DictGet(request.event, S(IF OnWeather THEN "location" ELSE "airport_code"), PyNone)

\* C27: in both remote handlers, whenever the tool name is the supported one,
\* the required argument is present and the tool function returns, the
\* handler answers statusCode 200 with the tool's result as the body, also
\* when that result is an error result (location not found, API key missing,
\* upstream failure), whose error field is then in the body.
C27_StatusReflectsInvocation ==
    (/\ Handled /\ JsonEvent
     /\ Recovered = Return(PyStr(Supported))
     /\ Truthy(RequiredArgument)
     /\ ToolEntered
     /\ ~ToolOutcome.raised) =>
        /\ ~response.raised
        /\ StatusCode = PyInt(200)
        /\ json_loads(Body) = ToolOutcome.value
        /\ ErrorOf(Body) = DictGet(ToolOutcome.value, S("error"), Absent)

\* the geocode service knows no such place: the weather handler answers 200
\* with the tool's error result
C27_Witness ==
    /\ OnWeather /\ JsonEvent
    /\ ToolEntered
    /\ request.upstream[1].kind = "ok"
    /\ ~Truthy(DictGet(request.upstream[1].data, S("results"), PyNone))
    /\ StatusCode = PyInt(200)
    /\ ErrorOf(Body) # Absent
    /\ DictGet(json_loads(Body), S("forecast"), Absent) = PyList(<<>>)

----------------------------------------------------------------------------
(* runtime_proxy_lambda.py: the proxy between the web app and the runtime *)

\* the configuration the module reads when it is loaded
ProxyEnv(arn) == [STRANDS_RUNTIME_ARN |-> arn]

\* cors_headers of lambda_handler
cors_headers ==
    PyDict(<< <<S("Content-Type"), PyStr(S("application/json"))>>,
              <<S("Access-Control-Allow-Origin"), PyStr(S("*"))>>,
              <<S("Access-Control-Allow-Headers"), PyStr(S("Content-Type,Authorization"))>>,
              <<S("Access-Control-Allow-Methods"), PyStr(S("POST,OPTIONS"))>> >>)

\* {'statusCode': code, 'headers': cors_headers, 'body': body}
ProxyResponse(code, body) ==
    Return(PyDict(<< <<S("statusCode"), PyInt(code)>>,
                     <<S("headers"), cors_headers>>,
                     <<S("body"), body>> >>))

\* json.dumps({key: text})
ProxyBody(key, text) == json_dumps(PyDict(<< <<S(key), PyStr(text)>> >>), FALSE).value

\* json.loads(event.get('body', '{}')): None is no text, and a text that does
\* not begin as a JSON value is rejected
proxy_parse_body(body) ==
    IF body.t # "str"
    THEN Raise("TypeError", S("the JSON object must be str, bytes or bytearray"))
    ELSE IF body.v = <<>> \/ ~(body.v[1] \in {"{", "[", "\"", "null", "true", "false"}
                               \/ IsDigit(body.v[1]))
    THEN Raise("JSONDecodeError", S("Expecting value: line 1 column 1 (char 0)"))
    ELSE Return(json_loads(body))

\* what Cognito answers to admin_initiate_auth
AuthFailed == [kind |-> "NotAuthorizedException", data |-> PyNone]
AuthAnswers ==
    {AuthFailed,
     Answered(PyDict(<< <<S("ChallengeName"), PyStr(S("NEW_PASSWORD_REQUIRED"))>> >>)),
     Answered(PyDict(<< <<S("AuthenticationResult"),
                         PyDict(<< <<S("AccessToken"), PyStr(<<>>)>> >>)>> >>)),
     Answered(PyDict(<< <<S("AuthenticationResult"),
                         PyDict(<< <<S("AccessToken"), PyStr(S("eyJ.token"))>> >>)>> >>))}

\* variant: without a token the call goes on as an anonymous one
get_cognito_token_anonymous(auth) == PyStr(S("anonymous"))

\* get_cognito_token: the access token, or None for whatever went wrong
get_cognito_token(auth) ==
    IF auth.kind # "ok" THEN PyNone
    ELSE LET result == DictGet(auth.data, S("AuthenticationResult"), Absent)
         IN IF result = Absent \/ result.t # "dict" THEN PyNone
            ELSE LET token == DictGet(result, S("AccessToken"), Absent)
                 IN IF token = Absent THEN PyNone ELSE token

\* what the runtime answers to invoke_agent_runtime: the decoded content of
\* the streaming body
RuntimeFailed == [kind |-> "ClientError", data |-> PyNone]
RuntimeAnswers ==
    {RuntimeFailed,
     Answered(PyDict(<< <<S("response"), PyStr(S("Twelve SUVs are available."))>> >>)),
     Answered(PyStr(<<"\"", "Twelve SUVs are available.", "\"">>)),
     Answered(PyDict(<< <<S("output"), PyStr(S("Twelve SUVs are available."))>> >>)),
     Answered(PyStr(<<>>)),
     Answered(PyList(<<>>))}

\* the clean-up of the response text: surrounding quotes are taken off
Unquoted(text) ==
    IF Len(text) >= 2 /\ text[1] = "\"" /\ text[Len(text)] = "\""
    THEN SubSeq(text, 2, Len(text) - 1)
    ELSE text

\* invoke_runtime: the response text, or None for whatever went wrong; arn is
\* RUNTIME_ARN, rt the runtime's answer
invoke_runtime(prompt, token, arn, rt) ==
    LET invocation == <<Call("runtime", "invoke_agent_runtime",
                             PyDict(<< <<S("prompt"), prompt>> >>))>>
        response_text == IF rt.data.t = "dict"
                         THEN DictGet(rt.data, S("response"), PyStr(S("<value>")))
                         ELSE rt.data
    IN IF arn.t # "str" \/ prompt.t # "str"
       THEN Done(Return(PyNone), <<>>)     \* .split or prompt[:100] raised
       ELSE IF rt.kind # "ok" \/ response_text.t # "str"
       THEN Done(Return(PyNone), invocation)
       ELSE IF Unquoted(response_text.v) = <<>>
       THEN Done(Return(PyStr(S("No response from runtime"))), invocation)
       ELSE Done(Return(PyStr(Unquoted(response_text.v))), invocation)

\* lambda_handler of the proxy; auth is Cognito's answer, rt the runtime's
proxy_lambda_handler(event, arn, auth, rt) ==
    LET body == proxy_parse_body(DictGet(event, S("body"), PyStr(<<"{", "}">>)))
        prompt == DictGet(body.value, S("prompt"), PyStr(<<>>))
        authenticated == <<Call("cognito", "admin_initiate_auth", PyNone)>>
        token == get_cognito_token(auth)
        invoked == invoke_runtime(prompt, token, arn, rt)
    IN IF event.t # "dict"
       THEN Done(Raise("AttributeError", S("object has no attribute 'get'")), <<>>)
       ELSE IF DictGet(event, S("httpMethod"), PyNone) = PyStr(S("OPTIONS"))
       THEN Done(ProxyResponse(200, PyStr(<<>>)), <<>>)
       ELSE IF body.raised
       THEN Done(ProxyResponse(500, ProxyBody("error", body.msg)), <<>>)
       ELSE IF body.value.t # "dict"
       THEN Done(ProxyResponse(500, ProxyBody("error", S("object has no attribute 'get'"))),
                 <<>>)
       ELSE IF ~Truthy(prompt)
       THEN Done(ProxyResponse(400, ProxyBody("error", S("No prompt provided"))), <<>>)
       ELSE IF ~Truthy(token)
       THEN Done(ProxyResponse(500, ProxyBody("error", S("Failed to authenticate"))),
                 authenticated)
       ELSE IF Truthy(invoked.ret.value)
       THEN Done(ProxyResponse(200, ProxyBody("response", invoked.ret.value.v)),
                 authenticated \o invoked.calls)
       ELSE Done(ProxyResponse(500, ProxyBody("error",
                                              S("Failed to get response from runtime"))),
                 authenticated \o invoked.calls)

\* what API Gateway hands to the proxy
ProxyMethods == {Absent, PyStr(S("OPTIONS")), PyStr(S("POST"))}
ProxyBodies ==
    {Absent, PyNone, PyStr(S("prompt=hello"))}
    \cup {json_dumps(x, FALSE).value :
            x \in {PyDict(<<>>),
                   PyList(<<>>),
                   PyDict(<< <<S("prompt"), PyStr(<<>>)>> >>),
                   PyDict(<< <<S("prompt"), PyInt(5)>> >>),
                   PyDict(<< <<S("prompt"), PyStr(S("Any SUVs in 90001?"))>> >>),
                   PyDict(<< <<S("prompt"), PyStr(S("Weather in Paris?"))>>,
                             <<S("session"), PyStr(S("s-1"))>> >>)}}
ProxyEvents ==
    {PyNone}
    \cup {PyDict((IF method = Absent THEN <<>> ELSE << <<S("httpMethod"), method>> >>)
                 \o IF body = Absent THEN <<>> ELSE << <<S("body"), body>> >>) :
            method \in ProxyMethods, body \in ProxyBodies}
RuntimeArns ==
    {PyNone, PyStr(S("arn:aws:bedrock-agentcore:runtime/hertz")),
     PyStr(S("arn:aws:bedrock-agentcore:runtime/hertz-test"))}

\* an endpoint that is not called gives no answer
NotAsked == [kind |-> "not asked", data |-> PyNone]
AnswersTo(log, target, answers) ==
    IF \E i \in 1..Len(log) : log[i].target = target THEN answers ELSE {NotAsked}

\* API Gateway invokes the proxy
ProxyInvoke ==
    /\ Idle
    /\ \E event \in ProxyEvents :
        \E auth \in AnswersTo(proxy_lambda_handler(event, env.STRANDS_RUNTIME_ARN,
                                                   AuthFailed, RuntimeFailed).calls,
                              "admin_initiate_auth", AuthAnswers) :
        \E rt \in AnswersTo(proxy_lambda_handler(event, env.STRANDS_RUNTIME_ARN, auth,
                                                 RuntimeFailed).calls,
                            "invoke_agent_runtime", RuntimeAnswers) :
            LET out == proxy_lambda_handler(event, env.STRANDS_RUNTIME_ARN, auth, rt)
            IN /\ request' = Invocation("runtime_proxy", event, Context(Absent, Absent),
                                        <<auth, rt>>)
               /\ response' = out.ret
               /\ calls' = out.calls
               /\ UNCHANGED <<table, env, script>>

InitProxy ==
    /\ table = <<>>
    /\ env \in {ProxyEnv(arn) : arn \in RuntimeArns}
    /\ request = NoRequest
    /\ response = Return(PyNone)
    /\ calls = <<>>
    /\ NoScript

NextProxy == ProxyInvoke \/ Finish

SpecProxy == InitProxy /\ [][NextProxy]_vars

----------------------------------------------------------------------------
(* Properties of the proxy, under SpecProxy *)

Proxied == request.op = "runtime_proxy"

\* the positions in the call log of the calls of an operation
CallsOf(target) == {i \in 1..Len(calls) : calls[i].target = target}

\* the request is a CORS preflight
Preflight == DictGet(request.event, S("httpMethod"), PyNone) = PyStr(S("OPTIONS"))

\* the request's body, parsed as the handler parses it
ParsedBody == proxy_parse_body(DictGet(request.event, S("body"), PyStr(<<"{", "}">>)))

\* the body parsed to a JSON object; its prompt, '' when it has none
BodyParsed == ~ParsedBody.raised /\ ParsedBody.value.t = "dict"
Prompt == DictGet(ParsedBody.value, S("prompt"), PyStr(<<>>))

\* Cognito answered the authentication with an access token
TokenObtained ==
    /\ CallsOf("admin_initiate_auth") # {}
    /\ request.upstream[1].kind = "ok"
    /\ LET result == DictGet(request.upstream[1].data, S("AuthenticationResult"), PyDict(<<>>))
       IN Truthy(DictGet(result, S("AccessToken"), PyNone))

\* C28: the proxy's lambda_handler invokes the runtime at most once per
\* request, and only when the method is not OPTIONS, the body parsed to a
\* non-empty prompt and a Cognito token was obtained before; an OPTIONS
\* request is answered 200 with an empty body, a body without a prompt 400,
\* a failed authentication 500, none of them invoking the runtime; every
\* response carries the CORS headers.
C28_RuntimeInvokedOnceAfterChecks ==
    (Proxied /\ request.event.t = "dict") =>
        /\ ~response.raised
        /\ Cardinality(CallsOf("invoke_agent_runtime")) <= 1
        /\ Cardinality(CallsOf("admin_initiate_auth")) <= 1
        /\ \A r \in CallsOf("invoke_agent_runtime") :
                /\ ~Preflight
                /\ BodyParsed
                /\ Truthy(Prompt)
                /\ calls[r].arg = PyDict(<< <<S("prompt"), Prompt>> >>)
                /\ TokenObtained
                /\ \E a \in CallsOf("admin_initiate_auth") : a < r
        /\ Preflight =>
                /\ StatusCode = PyInt(200)
                /\ Body = PyStr(<<>>)
                /\ calls = <<>>
        /\ (~Preflight /\ BodyParsed /\ ~Truthy(Prompt)) =>
                /\ StatusCode = PyInt(400)
                /\ ErrorOf(Body) = PyStr(S("No prompt provided"))
                /\ calls = <<>>
        /\ (~Preflight /\ BodyParsed /\ Truthy(Prompt) /\ ~TokenObtained) =>
                /\ StatusCode = PyInt(500)
                /\ ErrorOf(Body) = PyStr(S("Failed to authenticate"))
                /\ CallsOf("invoke_agent_runtime") = {}
        /\ Keys(response.value) = {S("statusCode"), S("headers"), S("body")}
        /\ DictGet(response.value, S("headers"), Absent)
            = PyDict(<< <<S("Content-Type"), PyStr(S("application/json"))>>,
                        <<S("Access-Control-Allow-Origin"), PyStr(S("*"))>>,
                        <<S("Access-Control-Allow-Headers"),
                          PyStr(S("Content-Type,Authorization"))>>,
                        <<S("Access-Control-Allow-Methods"), PyStr(S("POST,OPTIONS"))>> >>)

\* a prompt was posted, the token obtained and the runtime invoked once
C28_Witness ==
    /\ Proxied
    /\ request.event.t = "dict"
    /\ TokenObtained
    /\ Cardinality(CallsOf("invoke_agent_runtime")) = 1
    /\ StatusCode = PyInt(200)
    /\ DictGet(json_loads(Body), S("response"), Absent)
        = PyStr(S("Twelve SUVs are available."))

----------------------------------------------------------------------------
(* deploy_gateway.py: the gateway is looked up or created, and waited for *)

max_wait_time == 300
wait_interval == 10

\* variant: the wait is over at any status that is not an error
GatewayReady_any == {"ACTIVE", "READY", "CREATING", "UPDATING"}

\* the statuses that end the wait, and those that end the script
GatewayReady == {"ACTIVE", "READY"}
GatewayGone == {"FAILED", "DELETING", "DELETED"}

\* what the service can make of a gateway
GatewayOutcomes(s) ==
    CASE s = "CREATING" -> {"READY", "FAILED"}
      [] s = "UPDATING" -> {"ACTIVE", "DELETING"}
      [] s = "DELETING" -> {"DELETED"}
      [] OTHER -> {}

\* the four parameters the script stores for a gateway it created
GatewayParameters ==
    {"/hertz/agentcore/weather_gateway_id", "/hertz/agentcore/weather_gateway_url",
     "/hertz/agentcore/weather_gateway_arn", "/hertz/agentcore/gateway_id"}

\* an exception no clause catches ends the script with a traceback
Uncaught ==
    /\ pc' = "exited"
    /\ outcome' = Reported("traceback", 1)

\* [1/3]: the gateway named in the parameter store is looked up; when there
\* is no parameter or no such gateway, one is created and its parameters are
\* stored
GatewayCheck ==
    /\ pc = "check"
    /\ \/ \* the gateway exists
          /\ cloud' \in {"READY", "UPDATING"}
          /\ pc' = "targets"
          /\ outcome' = Reported("exists", 0)
          /\ UNCHANGED ssm
       \/ \* ParameterNotFound or ResourceNotFoundException
          /\ cloud' \in {"CREATING", "UPDATING", "READY"}
          /\ \/ /\ ssm' = GatewayParameters
                /\ pc' = "waiting"
                /\ outcome' = Reported("created", 0)
             \/ \* put_parameter raises
                /\ ssm' \in {{}, {"/hertz/agentcore/weather_gateway_id"}}
                /\ Uncaught
       \/ \* another exception of the lookup, or create_gateway raises
          /\ Uncaught
          /\ UNCHANGED <<cloud, ssm>>
    /\ UNCHANGED <<table, env, request, response, calls, deploy_status, polls, elapsed_time>>

\* one turn of `while elapsed_time < max_wait_time`
GatewayPoll ==
    /\ pc = "waiting"
    /\ elapsed_time < max_wait_time
    /\ polls' = polls + 1
    /\ \E answer \in {cloud, "None", "raised"} :
        /\ deploy_status' = answer
        /\ IF answer \in GatewayReady
           THEN /\ pc' = "targets"
                /\ outcome' = Reported("active", 0)
                /\ UNCHANGED elapsed_time
           ELSE IF answer \in GatewayGone
           THEN \* sys.exit(1): SystemExit passes `except Exception`
                /\ pc' = "exited"
                /\ outcome' = Reported("failed", 1)
                /\ UNCHANGED elapsed_time
           ELSE /\ elapsed_time' = elapsed_time + wait_interval
                /\ UNCHANGED <<pc, outcome>>
    /\ UNCHANGED <<table, env, request, response, calls, cloud, ssm>>

\* the loop ended by its condition: a warning, and the script goes on
GatewayTimeout ==
    /\ pc = "waiting"
    /\ elapsed_time >= max_wait_time
    /\ pc' = "targets"
    /\ outcome' = Reported("not ready", 0)
    /\ UNCHANGED <<table, env, request, response, calls, cloud, deploy_status, polls,
                   elapsed_time, ssm>>

\* [2/3] and what follows: the targets, the test user, the token, the .env
\* file; what fails there is printed
GatewayTargets ==
    /\ pc = "targets"
    /\ pc' = "exited"
    /\ UNCHANGED <<table, env, request, response, calls, cloud, deploy_status, polls,
                   elapsed_time, ssm, outcome>>

\* the service goes on with the gateway while the script waits
GatewayProgress ==
    /\ pc = "waiting"
    /\ cloud' \in GatewayOutcomes(cloud)
    /\ UNCHANGED <<table, env, request, response, calls, pc, deploy_status, polls,
                   elapsed_time, ssm, outcome>>

InitGatewayDeploy ==
    /\ table = <<>>
    /\ env = Env(PyNone, PyNone)
    /\ request = NoRequest
    /\ response = Return(PyNone)
    /\ calls = <<>>
    /\ pc = "check"
    /\ cloud = "none"
    /\ deploy_status = "none"
    /\ polls = 0
    /\ elapsed_time = 0
    /\ ssm = {}
    /\ outcome = Reported("none", 0)

NextGatewayDeploy ==
    GatewayCheck \/ GatewayPoll \/ GatewayTimeout \/ GatewayTargets \/ GatewayProgress

SpecGatewayDeploy == InitGatewayDeploy /\ [][NextGatewayDeploy]_vars

----------------------------------------------------------------------------
(* Properties of the gateway deployment script, under SpecGatewayDeploy *)

\* C29: the wait-for-ACTIVE loop of the gateway deployment script makes at
\* most 30 status polls, every poll that does not end the wait (an error of
\* the poll included) costing 10 of the 300 seconds; it ends at once when
\* the status is ACTIVE or READY; the script exits with code 1 when the
\* status is FAILED, DELETING or DELETED; when the 300 seconds are used up
\* the script goes on to the targets; when the gateway existed the loop is
\* not entered.
C29_WaitIsBounded ==
    /\ [](polls <= 30 /\ elapsed_time <= 300)
    /\ [](elapsed_time \in {10 * polls, 10 * (polls - 1)})
    /\ [][polls' # polls =>
            /\ pc = "waiting" /\ elapsed_time < 300 /\ polls' = polls + 1
            /\ deploy_status' \in {"ACTIVE", "READY"} =>
                    pc' = "targets" /\ elapsed_time' = elapsed_time
            /\ deploy_status' \in {"FAILED", "DELETING", "DELETED"} =>
                    pc' = "exited" /\ outcome'.code = 1 /\ elapsed_time' = elapsed_time
            /\ deploy_status' \notin {"ACTIVE", "READY", "FAILED", "DELETING", "DELETED"} =>
                    pc' = "waiting" /\ elapsed_time' = elapsed_time + 10]_vars
    /\ [][(pc = "waiting" /\ pc' = "targets") =>
            \/ deploy_status' \in {"ACTIVE", "READY"}
            \/ elapsed_time = 300 /\ outcome' = Reported("not ready", 0)]_vars
    /\ [][(pc = "waiting" /\ elapsed_time >= 300) =>
            polls' = polls /\ pc' \in {"waiting", "targets"}]_vars
    /\ [](outcome.reported = "exists" => polls = 0 /\ elapsed_time = 0 /\ pc # "waiting")
    /\ [](outcome.reported = "failed" =>
            outcome.code = 1 /\ deploy_status \in {"FAILED", "DELETING", "DELETED"})

\* thirty polls found the gateway neither ready nor gone, and the script
\* went on to the targets
C29_Witness ==
    /\ pc = "targets"
    /\ polls = 30
    /\ elapsed_time = 300
    /\ outcome = Reported("not ready", 0)

----------------------------------------------------------------------------
(* strands_runtime.py: the entrypoint of the agent runtime *)

\* local_tools, by name
local_tools ==
    <<"search_vehicles_general", "search_fleet_by_zip", "get_fleet_summary",
      "get_national_holidays", "get_local_events">>

\* what get_gateway, the MCP session and the agent can answer
GatewayLookups ==
    {[kind |-> "ResourceNotFoundException", data |-> PyNone],
     Answered(PyDict(<< <<S("gatewayId"), PyStr(S("gw-1"))>> >>)),
     Answered(PyDict(<< <<S("gatewayUrl"), PyStr(S("https://gw-1/mcp"))>> >>))}

\* the MCP session: it cannot be opened, the listing fails, the tools are
\* listed, or the tools are listed and closing the session fails
McpOutcomes ==
    {[kind |-> "enter failed", data |-> <<>>],
     [kind |-> "list failed", data |-> <<>>],
     [kind |-> "ok", data |-> <<>>],
     [kind |-> "ok", data |-> <<"WeatherForecastTool___get_weather_forecast",
                                "FlightTrafficTool___get_flight_traffic">>],
     [kind |-> "exit failed", data |-> <<"WeatherForecastTool___get_weather_forecast">>]}

AgentOutcomes ==
    {[kind |-> "construct failed", data |-> PyNone],
     [kind |-> "run failed", data |-> PyNone],
     Answered(PyStr(S("Demand is high this weekend.")))}

\* variant: the agent is built while the session is still open
mcp_session_open(gateway_id, auth_header, gw, mcp) ==
    IF gw.kind = "ok" /\ HasKey(gw.data, S("gatewayUrl")) /\ mcp.kind = "ok"
    THEN Done(local_tools \o mcp.data,
              <<Call("gateway", "get_gateway", gateway_id),
                Call("mcp", "enter", auth_header),
                Call("mcp", "list_tools", PyNone)>>)
    ELSE Done(local_tools, <<Call("gateway", "get_gateway", gateway_id)>>)

\* the try block of invoke: the gateway's URL is looked up, the MCP session
\* is opened, its tools are listed and the session is closed; on any
\* exception the tools are the local ones
mcp_session(gateway_id, auth_header, gw, mcp) ==
    LET looked_up == <<Call("gateway", "get_gateway", gateway_id)>>
        entered == <<Call("mcp", "enter", auth_header)>>
        listed == <<Call("mcp", "list_tools", PyNone)>>
        exited == <<Call("mcp", "exit", PyNone)>>
    IN IF gw.kind # "ok" \/ ~HasKey(gw.data, S("gatewayUrl"))
       THEN Done(local_tools, looked_up)
       ELSE IF mcp.kind = "enter failed"
       THEN Done(local_tools, looked_up \o entered)
       ELSE IF mcp.kind = "list failed" \/ mcp.kind = "exit failed"
       THEN Done(local_tools, looked_up \o entered \o listed \o exited)
       ELSE Done(local_tools \o mcp.data, looked_up \o entered \o listed \o exited)

\* invoke(payload, context); gateway_id is what get_ssm_parameter returned
invoke(payload, context, gateway_id, gw, mcp, agent) ==
    LET user_input == DictGet(payload, S("prompt"), PyStr(<<>>))
        request_headers == IF Truthy(context.request_headers)
                           THEN context.request_headers
                           ELSE PyDict(<<>>)
        auth_header == DictGet(request_headers, S("Authorization"), PyStr(<<>>))
        read == <<Call("ssm", "get_parameter", PyStr(S("/hertz/agentcore/gateway_id")))>>
        session == IF Truthy(gateway_id) /\ Truthy(auth_header)
                   THEN mcp_session(gateway_id, auth_header, gw, mcp)
                   ELSE Done(local_tools, <<>>)
        built == <<Call("agent", "Agent", session.ret)>>
        run == <<Call("agent", "run", user_input)>>
    IN IF context = PyNone
       THEN Done(Raise("AttributeError", S("object has no attribute 'request_headers'")), <<>>)
       ELSE IF agent.kind = "construct failed"
       THEN Done(Return(PyStr(S("Error: ") \o S("tool could not be loaded"))),
                 read \o session.calls \o built)
       ELSE IF agent.kind = "run failed"
       THEN Done(Return(PyStr(S("Error: ") \o S("model call failed"))),
                 read \o session.calls \o built \o run)
       ELSE Done(Return(agent.data), read \o session.calls \o built \o run)

\* what the runtime is invoked with
Payloads ==
    {PyDict(<<>>),
     PyDict(<< <<S("prompt"), PyStr(S("Any SUVs in 90001?"))>> >>),
     PyDict(<< <<S("prompt"), PyStr(S("Weather in Paris?"))>> >>)}
RequestContexts ==
    {PyNone}
    \cup {[request_headers |-> h] :
            h \in {PyNone,
                   PyDict(<< <<S("Authorization"), PyStr(<<>>)>> >>),
                   PyDict(<< <<S("Authorization"), PyStr(S("Bearer eyJ.token"))>> >>)}}
GatewayIds == {PyNone, PyStr(S("gw-1"))}

\* the runtime is invoked
Invoke ==
    /\ Idle
    /\ \E payload \in Payloads, context \in RequestContexts, gateway_id \in GatewayIds :
        LET probe == invoke(payload, context, gateway_id, Answered(PyDict(<<>>)),
                            [kind |-> "ok", data |-> <<>>], Answered(PyNone)).calls
        IN \E gw \in AnswersTo(probe, "get_gateway", GatewayLookups) :
           \E mcp \in AnswersTo(invoke(payload, context, gateway_id, gw,
                                       [kind |-> "ok", data |-> <<>>], Answered(PyNone)).calls,
                                "enter", McpOutcomes) :
           \E agent \in AnswersTo(probe, "Agent", AgentOutcomes) :
                LET out == invoke(payload, context, gateway_id, gw, mcp, agent)
                IN /\ request' = Invocation("invoke", payload, context,
                                            <<gateway_id, gw, mcp, agent>>)
                   /\ response' = out.ret
                   /\ calls' = out.calls
                   /\ UNCHANGED <<table, env, script>>

InitRuntime ==
    /\ table = <<>>
    /\ env = Env(PyNone, PyNone)
    /\ request = NoRequest
    /\ response = Return(PyNone)
    /\ calls = <<>>
    /\ NoScript

NextRuntime == Invoke \/ Finish

SpecRuntime == InitRuntime /\ [][NextRuntime]_vars

----------------------------------------------------------------------------
(* Properties of the runtime entrypoint, under SpecRuntime *)

\* the Authorization header of the request, '' when there is none
AuthHeader ==
    IF Truthy(request.context.request_headers)
    THEN DictGet(request.context.request_headers, S("Authorization"), PyStr(<<>>))
    ELSE PyStr(<<>>)

\* a gateway id was retrieved, the Authorization header is not empty, and the
\* MCP tools of the gateway were listed within a session that was closed
McpListed ==
    /\ Truthy(request.upstream[1])
    /\ Truthy(AuthHeader)
    /\ request.upstream[2].kind = "ok"
    /\ HasKey(request.upstream[2].data, S("gatewayUrl"))
    /\ request.upstream[3].kind = "ok"

\* C30: invoke builds the agent with the five local tools unless a gateway
\* id was retrieved, the Authorization header is non-empty and listing the
\* gateway's MCP tools succeeded; then the tools are the local ones followed
\* by the MCP tools, and the MCP session that supplied them has been exited
\* before the agent is constructed and run; in every other case the agent
\* has exactly the local tools.
C30_ToolsOfTheAgent ==
    (request.op = "invoke" /\ request.context # PyNone) =>
        /\ ~response.raised
        /\ Cardinality(CallsOf("Agent")) = 1
        /\ \A a \in CallsOf("Agent") :
            /\ \A r \in CallsOf("run") : a < r
            /\ \A c \in CallsOf("enter") \cup CallsOf("list_tools") \cup CallsOf("exit") : c < a
            /\ IF McpListed
               THEN /\ calls[a].arg
                        = <<"search_vehicles_general", "search_fleet_by_zip",
                            "get_fleet_summary", "get_national_holidays", "get_local_events">>
                          \o request.upstream[3].data
                    /\ \E e \in CallsOf("enter"), l \in CallsOf("list_tools"),
                          x \in CallsOf("exit") : e < l /\ l < x /\ x < a
               ELSE calls[a].arg
                        = <<"search_vehicles_general", "search_fleet_by_zip",
                            "get_fleet_summary", "get_national_holidays", "get_local_events">>
        /\ CallsOf("enter") # {} => (Truthy(request.upstream[1]) /\ Truthy(AuthHeader))

\* the gateway's two tools were listed, the session was closed, and the agent
\* ran with seven tools
C30_Witness ==
    /\ request.op = "invoke"
    /\ request.context # PyNone
    /\ McpListed
    /\ CallsOf("exit") # {}
    /\ \E a \in CallsOf("Agent") : Len(calls[a].arg) = 7
    /\ CallsOf("run") # {}
    /\ ~response.raised

====
